---------------------------- MODULE Spec2Model ----------------------------
(***************************************************************************)
(* Text Analytics Engine of SEO-Wortanzahl-Analyse: the tokenizer with its *)
(* fallback tiers (SEOAnalyzer.safe_tokenize), the word statistics         *)
(* (WordCounter.count_words, WordCounter._get_word_frequency), the keyword *)
(* density scorer (SEOAnalyzer.keyword_density), the corpus scorers        *)
(* (calculate_tf_idf, calculate_wdf_idf), the readability scorer           *)
(* (readability_metrics, _get_complexity_level), the semantic scorer       *)
(* (semantic_analysis, get_stopwords) and the facade that runs the scorers *)
(* over one document (analyze_document in ui/web.py).                      *)
(*                                                                         *)
(* A text is a sequence of one-character strings, a token is a non-empty   *)
(* sequence of characters, and a Python dict is the sequence of its        *)
(* (key, value) entries in insertion order.                                *)
(***************************************************************************)
EXTENDS Integers, Sequences, FiniteSets, TLC

VARIABLES
    call,      \* the operation invoked and its arguments
    env,       \* what the process finds at run time: NLTK data, allocator
    pc,        \* position inside the running operation
    ran,       \* tokenizer tiers attempted so far, in order
    tokens,    \* token list held by the running operation
    log,       \* records written to the module logger / Streamlit
    result     \* value built up and finally returned by the operation

vars == <<call, env, pc, ran, tokens, log, result>>

----------------------------------------------------------------------------
(* Bounds of the model. *)

MaxLen == 3        \* longest enumerated text, in characters
MaxShort == 1      \* longest paragraph of an enumerated two-paragraph document
MaxWords == 4      \* longest enumerated word list for _get_word_frequency
MaxTopN == 2       \* largest enumerated top_n for _get_word_frequency
MaxKeywords == 1   \* longest enumerated keyword list
MaxDocs == 3       \* largest enumerated corpus, in documents
MaxEase == 121     \* largest enumerated ease score, in whole points
MaxCalls == 3      \* most calls of one process
MaxThreads == 3    \* threads calling get_stopwords at the same time
MaxPaths == 3      \* longest enumerated list of document paths
MaxUploads == 2    \* most files uploaded in one batch
MaxFiles == 1      \* most files in one POST /analyze/ request
MaxDownloads == 1  \* most repeated calls of download_nltk_resources

(* top_n: int = 10 *)
DefaultTopN == 10

(* most_common(10) *)
MostCommonN == 10

(* [:10] of the facade's keyword selection *)
TopKeywordsN == 10

----------------------------------------------------------------------------
(* Characters and the str predicates the code relies on. *)

Letters == {"a", "b", "c", "d", "e", "g", "h", "i", "l", "n", "o", "r", "s",
            "t", "u", "w", "x", "y", "z", "B", "H", "W"}
Digits == {"1", "2", "3"}
Spaces == {" ", "\n"}

(* the characters of the enumerated texts *)
Chars == {"a", "B", "1", "_", "!", " "}

(* str.lower, one character *)
Lower(c) ==
    CASE c = "B" -> "b"
      [] c = "H" -> "h"
      [] c = "W" -> "w"
      [] OTHER -> c

(* str.lower *)
LowerText(t) == [i \in 1..Len(t) |-> Lower(t[i])]

IsAlnumChar(c) == c \in Letters \cup Digits

(* a character matched by \w: alphanumeric or underscore *)
IsWordChar(c) == IsAlnumChar(c) \/ c = "_"

IsSpace(c) == c \in Spaces

(* str.isalnum: non-empty and every character alphanumeric *)
IsAlnum(tok) == Len(tok) > 0 /\ \A i \in 1..Len(tok) : IsAlnumChar(tok[i])

(* [x for x in s if keep(x)] *)
RECURSIVE SelectAlnum(_)
SelectAlnum(s) ==
    IF s = <<>> THEN <<>>
    ELSE IF IsAlnum(Head(s)) THEN <<Head(s)>> \o SelectAlnum(Tail(s))
    ELSE SelectAlnum(Tail(s))

(* sep.join(parts) *)
RECURSIVE Join(_, _)
Join(parts, sep) ==
    IF parts = <<>> THEN <<>>
    ELSE IF Len(parts) = 1 THEN parts[1]
    ELSE parts[1] \o sep \o Join(Tail(parts), sep)

----------------------------------------------------------------------------
(* The three tokenizer tiers. *)

(* str.split(): the maximal runs of non-whitespace characters *)
RECURSIVE SplitFrom(_, _, _, _)
SplitFrom(t, i, cur, acc) ==
    IF i > Len(t) THEN (IF cur = <<>> THEN acc ELSE Append(acc, cur))
    ELSE IF IsSpace(t[i])
         THEN SplitFrom(t, i + 1, <<>>, IF cur = <<>> THEN acc ELSE Append(acc, cur))
         ELSE SplitFrom(t, i + 1, Append(cur, t[i]), acc)

SplitTier(t) == SplitFrom(t, 1, <<>>, <<>>)

(* \b at position i (between t[i-1] and t[i]) *)
WordBoundary(t, i) ==
    (i > 1 /\ IsWordChar(t[i - 1])) # (i <= Len(t) /\ IsWordChar(t[i]))

(* \w+ taken greedily from position i: the first position not consumed *)
RECURSIVE GreedyEnd(_, _)
GreedyEnd(t, i) ==
    IF i <= Len(t) /\ IsWordChar(t[i]) THEN GreedyEnd(t, i + 1) ELSE i

(* the trailing \b, giving characters back until it holds; 0: no match *)
RECURSIVE Backtrack(_, _, _)
Backtrack(t, i, e) ==
    IF e <= i THEN 0
    ELSE IF WordBoundary(t, e) THEN e
    ELSE Backtrack(t, i, e - 1)

(* a non-greedy \b\w+? with no closing \b: one character per match *)
MatchAtLazy(t, i) ==
    IF WordBoundary(t, i) /\ i <= Len(t) /\ IsWordChar(t[i]) THEN i + 1 ELSE 0

(* the end (exclusive) of the match of \b\w+\b starting at i; 0: no match *)
MatchAt(t, i) ==
    IF WordBoundary(t, i) THEN Backtrack(t, i, GreedyEnd(t, i)) ELSE 0

(* re.findall: leftmost matches, scanning on from the end of each match *)
RECURSIVE FindAllFrom(_, _, _)
FindAllFrom(t, i, acc) ==
    IF i > Len(t) THEN acc
    ELSE LET e == MatchAt(t, i)
         IN  IF e = 0 THEN FindAllFrom(t, i + 1, acc)
             ELSE FindAllFrom(t, e, Append(acc, SubSeq(t, i, e - 1)))

(* re.findall(r'\b\w+\b', t) *)
RegexTier(t) == FindAllFrom(t, 1, <<>>)

(* nltk.word_tokenize: the Treebank rules that apply to the model's         *)
(* characters.  "!" always becomes a token of its own; "," does unless a    *)
(* digit follows it; everything else is split at whitespace only, so an     *)
(* underscore stays inside its token.                                       *)
RECURSIVE PadPunct(_, _)
PadPunct(t, i) ==
    IF i > Len(t) THEN <<>>
    ELSE LET c == t[i]
             sep == \/ c = "!"
                    \/ c = "," /\ (i = Len(t) \/ t[i + 1] \notin Digits)
         IN  (IF sep THEN <<" ", c, " ">> ELSE <<c>>) \o PadPunct(t, i + 1)

WordTokenize(t) == SplitTier(PadPunct(t, 1))

(* tier 1: word_tokenize(text.lower()), keeping the tokens with isalnum() *)
NltkTier(t) == SelectAlnum(WordTokenize(t))

----------------------------------------------------------------------------
(* Logging. *)

LogRec(level, src) == [level |-> level, src |-> src]

----------------------------------------------------------------------------
(* SEOAnalyzer.safe_tokenize as the whole call: the tokens it returns and   *)
(* the records it logs, given which tiers raise.                            *)

SafeTokenize(text, e) ==
    IF e.nltk
    THEN [tokens |-> NltkTier(LowerText(text)), tier |-> "nltk", log |-> <<>>]
    ELSE IF e.regex
    THEN [tokens |-> RegexTier(LowerText(text)), tier |-> "regex",
          log |-> <<LogRec("WARNING", "nltk")>>]
    ELSE [tokens |-> SplitTier(LowerText(text)), tier |-> "split",
          log |-> <<LogRec("WARNING", "nltk"), LogRec("ERROR", "regex")>>]

----------------------------------------------------------------------------
(* Inputs. *)

TextsUpTo(n) == UNION {[1..k -> Chars] : k \in 0..n}

Str_Hello == <<"h", "e", "l", "l", "o">>
Str_World == <<"w", "o", "r", "l", "d">>
Str_123 == <<"1", "2", "3">>

(* "Hello, World! 123" *)
HelloText ==
    <<"H", "e", "l", "l", "o", ",", " ", "W", "o", "r", "l", "d", "!", " ",
      "1", "2", "3">>

TextInputs == TextsUpTo(MaxLen) \cup {HelloText}

(* what the process finds at run time:                                     *)
(*   nltk    the punkt data loads, so word_tokenize works                  *)
(*   regex   re.findall completes (it can only fail for lack of memory)    *)
(*   stop    the stopwords corpus loads                                    *)
(*   flesch  what textstat makes of the text: whether flesch_reading_ease  *)
(*           (ok) and flesch_kincaid_grade (grade_ok) return, and the      *)
(*           scores they give (in thousandths)                             *)
(*   freq    nltk.FreqDist(...).most_common completes (like re.findall it  *)
(*           can only fail for lack of memory)                             *)
(*   hashseed  what the seed of str hashes the process started with      *)
(*           makes of every set of two or more strings: the order in       *)
(*           which a for loop finds its elements, as a function of the     *)
(*           distinct strings in the order they were put into the set      *)
(*           (empty where the process iterates no such set)                *)
Env(nltk, regex, stop, flesch) ==
    [nltk |-> nltk, regex |-> regex, stop |-> stop, flesch |-> flesch,
     freq |-> TRUE, hashseed |-> <<>>]

FleschRaises == [ok |-> FALSE, grade_ok |-> FALSE, ease |-> 0, grade |-> 0]
FleschOutcomes ==
    {FleschRaises,
     [ok |-> TRUE, grade_ok |-> TRUE, ease |-> 65 * 1000, grade |-> 8 * 1000],
     [ok |-> TRUE, grade_ok |-> TRUE, ease |-> 0 - 5 * 1000, grade |-> 20 * 1000]}

(* the three ways the tokenizer can go, everything else as installed *)
TierEnvs ==
    {Env(TRUE, TRUE, TRUE, FleschRaises),
     Env(FALSE, TRUE, TRUE, FleschRaises),
     Env(FALSE, FALSE, TRUE, FleschRaises)}

NoResult == [kind |-> "none"]

----------------------------------------------------------------------------
(* safe_tokenize, tier by tier. *)

TokInit ==
    /\ call \in {[op |-> "safe_tokenize", text |-> t] : t \in TextInputs}
    /\ env \in TierEnvs
    /\ pc = "tok_nltk"
    /\ ran = <<>>
    /\ tokens = <<>>
    /\ log = <<>>
    /\ result = NoResult

(* try: word_tokenize succeeds, the alphanumeric tokens are returned *)
NltkTokenize ==
    /\ pc = "tok_nltk"
    /\ env.nltk
    /\ ran' = Append(ran, "nltk")
    /\ tokens' = NltkTier(LowerText(call.text))
    /\ result' = [kind |-> "tokens", tier |-> "nltk"]
    /\ pc' = "done"
    /\ UNCHANGED <<call, env, log>>

(* a handler that goes on to the next tier without logging *)
NltkRaisesSilently ==
    /\ pc = "tok_nltk"
    /\ ~env.nltk
    /\ ran' = Append(ran, "nltk")
    /\ pc' = "tok_regex"
    /\ UNCHANGED <<call, env, tokens, result, log>>

(* except Exception: logger.warning, then the regex tier *)
NltkRaises ==
    /\ pc = "tok_nltk"
    /\ ~env.nltk
    /\ ran' = Append(ran, "nltk")
    /\ log' = Append(log, LogRec("WARNING", "nltk"))
    /\ pc' = "tok_regex"
    /\ UNCHANGED <<call, env, tokens, result>>

(* try: re.findall succeeds *)
RegexTokenize ==
    /\ pc = "tok_regex"
    /\ env.regex
    /\ ran' = Append(ran, "regex")
    /\ tokens' = RegexTier(LowerText(call.text))
    /\ result' = [kind |-> "tokens", tier |-> "regex"]
    /\ pc' = "done"
    /\ UNCHANGED <<call, env, log>>

(* except Exception: logger.error, then the whitespace split *)
RegexRaises ==
    /\ pc = "tok_regex"
    /\ ~env.regex
    /\ ran' = Append(ran, "regex")
    /\ log' = Append(log, LogRec("ERROR", "regex"))
    /\ pc' = "tok_split"
    /\ UNCHANGED <<call, env, tokens, result>>

(* return text.lower().split() *)
SplitTokenize ==
    /\ pc = "tok_split"
    /\ ran' = Append(ran, "split")
    /\ tokens' = SplitTier(LowerText(call.text))
    /\ result' = [kind |-> "tokens", tier |-> "split"]
    /\ pc' = "done"
    /\ UNCHANGED <<call, env, log>>

TokNext ==
    \/ NltkTokenize
    \/ NltkRaises
    \/ RegexTokenize
    \/ RegexRaises
    \/ SplitTokenize

SpecTok == TokInit /\ [][TokNext]_vars

----------------------------------------------------------------------------
(* Dicts, sorting and slicing as the word counter uses them. *)

Entry(k, v) == [k |-> k, v |-> v]

Keys(d) == {d[i].k : i \in 1..Len(d)}

(* d.get(k, 0) *)
Get(d, k) ==
    IF k \in Keys(d) THEN (CHOOSE i \in 1..Len(d) : d[i].k = k) ELSE 0

(* d.setdefault(k, v): the first value written under a key stays *)
PutKeepFirst(d, k, v) ==
    IF k \in {d[i].k : i \in 1..Len(d)} THEN d ELSE Append(d, [k |-> k, v |-> v])

(* d[k] = v: an existing key keeps its place, a new key goes last *)
Put(d, k, v) ==
    IF k \in Keys(d)
    THEN [i \in 1..Len(d) |-> IF d[i].k = k THEN Entry(k, v) ELSE d[i]]
    ELSE Append(d, Entry(k, v))

(* for word in words: word_freq[word] = word_freq.get(word, 0) + 1 *)
RECURSIVE CountFrom(_, _, _)
CountFrom(words, i, d) ==
    IF i > Len(words) THEN d
    ELSE LET w == words[i]
             old == IF Get(d, w) = 0 THEN 0 ELSE d[Get(d, w)].v
         IN  CountFrom(words, i + 1, Put(d, w, old + 1))

WordFreq(words) == CountFrom(words, 1, <<>>)

(* the step of a sort that leaves the entries in insertion order (the     *)
(* sorted() call left out)                                                 *)
InsertUnsorted(sorted, e) == Append(sorted, e)

(* one step of a stable descending sort: e goes behind every entry whose   *)
(* value is not smaller than its own                                       *)
RECURSIVE InsertDesc(_, _)
InsertDesc(sorted, e) ==
    IF sorted = <<>> THEN <<e>>
    ELSE IF Head(sorted).v >= e.v THEN <<Head(sorted)>> \o InsertDesc(Tail(sorted), e)
    ELSE <<e>> \o sorted

(* the same step of an ascending sort (reverse=True left out) *)
RECURSIVE InsertAsc(_, _)
InsertAsc(sorted, e) ==
    IF sorted = <<>> THEN <<e>>
    ELSE IF Head(sorted).v <= e.v THEN <<Head(sorted)>> \o InsertAsc(Tail(sorted), e)
    ELSE <<e>> \o sorted

RECURSIVE SortAscFrom(_, _, _)
SortAscFrom(d, i, acc) ==
    IF i > Len(d) THEN acc ELSE SortAscFrom(d, i + 1, InsertAsc(acc, d[i]))

SortedAsc(d) == SortAscFrom(d, 1, <<>>)

RECURSIVE SortDescFrom(_, _, _)
SortDescFrom(d, i, acc) ==
    IF i > Len(d) THEN acc ELSE SortDescFrom(d, i + 1, InsertDesc(acc, d[i]))

(* sorted(d.items(), key=lambda x: x[1], reverse=True): stable *)
SortedDesc(d) == SortDescFrom(d, 1, <<>>)

(* s[:n] *)
SliceTo(s, n) ==
    LET stop == IF n >= 0 THEN (IF n < Len(s) THEN n ELSE Len(s))
                ELSE (IF Len(s) + n > 0 THEN Len(s) + n ELSE 0)
    IN  SubSeq(s, 1, stop)

(* WordCounter._get_word_frequency *)
GetWordFrequency(words, top_n) == SliceTo(SortedDesc(WordFreq(words)), top_n)

(* len(set(words)) *)
DistinctCount(words) == Cardinality({words[i] : i \in 1..Len(words)})

----------------------------------------------------------------------------
(* WordCounter.count_words.  A document is what docx.Document makes of the *)
(* file: it either fails to open or gives the paragraphs' texts.           *)

(* statistics with the two counts exchanged *)
WordStatsSwapped(paras) ==
    LET words == RegexTier(LowerText(Join(paras, <<" ">>)))
    IN  [kind |-> "stats",
         total_words |-> DistinctCount(words),
         unique_words |-> Len(words),
         word_frequency |-> GetWordFrequency(words, DefaultTopN)]

(* str.split(' '): cut at every blank, empty pieces kept *)
RECURSIVE SplitOnBlank(_, _, _, _)
SplitOnBlank(t, i, cur, acc) ==
    IF i > Len(t) THEN Append(acc, cur)
    ELSE IF t[i] = " " THEN SplitOnBlank(t, i + 1, <<>>, Append(acc, cur))
    ELSE SplitOnBlank(t, i + 1, Append(cur, t[i]), acc)

(* statistics whose words come from text.split(' ') *)
WordStatsSplitOnBlank(paras) ==
    LET words == SplitOnBlank(LowerText(Join(paras, <<" ">>)), 1, <<>>, <<>>)
    IN  [kind |-> "stats",
         total_words |-> Len(words),
         unique_words |-> DistinctCount(words),
         word_frequency |-> GetWordFrequency(words, DefaultTopN)]

(* statistics whose unique_words is counted on the truncated table *)
WordStatsUniqueOfTable(paras) ==
    LET words == RegexTier(LowerText(Join(paras, <<" ">>)))
    IN  [kind |-> "stats",
         total_words |-> Len(words),
         unique_words |-> Len(GetWordFrequency(words, DefaultTopN)),
         word_frequency |-> GetWordFrequency(words, DefaultTopN)]

(* the dictionary count_words returns for the paragraphs *)
WordStats(paras) ==
    LET words == RegexTier(LowerText(Join(paras, <<" ">>)))
    IN  [kind |-> "stats",
         total_words |-> Len(words),
         unique_words |-> DistinctCount(words),
         word_frequency |-> GetWordFrequency(words, DefaultTopN)]

Raised(exc) == [kind |-> "raised", exc |-> exc]

(* count_words as the whole call *)
CountWordsOf(doc) ==
    IF doc.ok THEN WordStats(doc.paras) ELSE Raised("ValueError")

----------------------------------------------------------------------------
(* Inputs of the word counter. *)

PoolLetters == <<"a", "b", "c", "d", "e", "h", "l", "n", "o", "r", "s", "t">>

(* n distinct one-letter words, then the first r of them once more *)
LongPara(n, r) ==
    Join([k \in 1..(n + r) |-> <<PoolLetters[((k - 1) % n) + 1]>>], <<" ">>)

LongParas ==
    {LongPara(n, r) : n \in (DefaultTopN - 1)..(DefaultTopN + 2), r \in 0..2}

ParaLists ==
    {<<>>}
        \cup {<<t>> : t \in TextInputs \cup LongParas}
        \cup {<<s, t>> : s \in TextsUpTo(MaxShort), t \in TextsUpTo(MaxShort)}

Docs ==
    {[ok |-> FALSE, paras |-> <<>>]} \cup {[ok |-> TRUE, paras |-> p] : p \in ParaLists}

SmallWords == {<<"a">>, <<"b">>, <<"c">>}

Str_Test == <<"t", "e", "s", "t">>
Str_Wort == <<"w", "o", "r", "t">>
Str_Analyse == <<"a", "n", "a", "l", "y", "s", "e">>

(* the word list of test_get_word_frequency *)
TestWords == <<Str_Test, Str_Wort, Str_Test, Str_Analyse, Str_Wort, Str_Test>>

FreqCalls ==
    {[op |-> "get_word_frequency", words |-> w, top_n |-> n] :
        w \in UNION {[1..k -> SmallWords] : k \in 0..MaxWords}, n \in 0..MaxTopN}
        \cup {[op |-> "get_word_frequency", words |-> TestWords, top_n |-> DefaultTopN]}

CountCalls == {[op |-> "count_words", doc |-> d] : d \in Docs}

----------------------------------------------------------------------------
(* The word counter's operations. *)

CountInit ==
    /\ call \in CountCalls \cup FreqCalls
    /\ env \in {Env(TRUE, TRUE, TRUE, FleschRaises)}
    /\ pc = "start"
    /\ ran = <<>>
    /\ tokens = <<>>
    /\ log = <<>>
    /\ result = NoResult

(* count_words returns its statistics *)
CountWords ==
    /\ pc = "start"
    /\ call.op = "count_words"
    /\ call.doc.ok
    /\ result' = CountWordsOf(call.doc)
    /\ pc' = "done"
    /\ UNCHANGED <<call, env, ran, tokens, log>>

(* docx.Document raises: except Exception -> raise ValueError *)
CountWordsRaises ==
    /\ pc = "start"
    /\ call.op = "count_words"
    /\ ~call.doc.ok
    /\ result' = CountWordsOf(call.doc)
    /\ pc' = "done"
    /\ UNCHANGED <<call, env, ran, tokens, log>>

(* _get_word_frequency(words, top_n) *)
WordFrequency ==
    /\ pc = "start"
    /\ call.op = "get_word_frequency"
    /\ result' = [kind |-> "freq", table |-> GetWordFrequency(call.words, call.top_n)]
    /\ pc' = "done"
    /\ UNCHANGED <<call, env, ran, tokens, log>>

CountNext ==
    \/ CountWords
    \/ CountWordsRaises
    \/ WordFrequency

SpecCount == CountInit /\ [][CountNext]_vars

----------------------------------------------------------------------------
(***************************************************************************)
(* WordCounter.analyze_multiple_documents.  A path is a directory and a    *)
(* file name; the files on disk are fixed for the length of a call.        *)
(***************************************************************************)
PathOf(dir, name) == [dir |-> dir, name |-> name]

(* Path(path).name *)
PathName(path) == path.name

(* the documents on disk; any other path cannot be opened *)
BatchFiles ==
    <<[path |-> PathOf("in", "a.docx"), doc |-> [ok |-> TRUE, paras |-> <<<<"a">>>>]],
      [path |-> PathOf("in", "b.docx"),
       doc |-> [ok |-> TRUE, paras |-> <<<<"a", " ", "b">>, <<"a">>>>]],
      [path |-> PathOf("in", "empty.docx"), doc |-> [ok |-> TRUE, paras |-> <<>>]],
      [path |-> PathOf("out", "a.docx"), doc |-> [ok |-> FALSE, paras |-> <<>>]]>>

BatchPaths ==
    {BatchFiles[i].path : i \in 1..Len(BatchFiles)}
        \cup {PathOf("in", "missing.docx")}

(* docx.Document(document_path) *)
FileAt(path) ==
    IF \E i \in 1..Len(BatchFiles) : BatchFiles[i].path = path
    THEN BatchFiles[CHOOSE i \in 1..Len(BatchFiles) : BatchFiles[i].path = path].doc
    ELSE [ok |-> FALSE, paras |-> <<>>]

StatsKeys == {"total_words", "unique_words", "word_frequency"}

(* str(e) of the ValueError count_words raises *)
CountWordsError == "Fehler beim Zählen der Wörter"

(* the entry of a failing path with zero statistics beside the error *)
BatchEntryZeroStatsOnError(path) ==
    LET r == CountWordsOf(FileAt(path))
    IN  IF r.kind = "stats"
        THEN ("file" :> PathName(path)) @@ [k \in StatsKeys |-> r[k]]
        ELSE [file |-> PathName(path), error |-> CountWordsError,
              total_words |-> 0, unique_words |-> 0, word_frequency |-> <<>>]

(* the body of the loop: {'file': ..., **count_words(path)}, or the entry  *)
(* of the except branch                                                    *)
BatchEntry(path) ==
    LET r == CountWordsOf(FileAt(path))
    IN  IF r.kind = "stats"
        THEN ("file" :> PathName(path)) @@ [k \in StatsKeys |-> r[k]]
        ELSE [file |-> PathName(path), error |-> CountWordsError]

BatchCalls ==
    {[op |-> "analyze_multiple_documents", document_paths |-> p] :
        p \in UNION {[1..n -> BatchPaths] : n \in 0..MaxPaths}}

(* results = [] *)
BatchInit ==
    /\ call \in BatchCalls
    /\ env \in {Env(TRUE, TRUE, TRUE, FleschRaises)}
    /\ pc = "loop"
    /\ ran = <<>>
    /\ tokens = <<>>
    /\ log = <<>>
    /\ result = [kind |-> "batch", results |-> <<>>]

(* the path the loop is at *)
BatchPath == call.document_paths[Len(ran) + 1]

(* try: results.append({'file': ..., **WordCounter.count_words(path)}) *)
BatchAppend ==
    /\ pc = "loop"
    /\ Len(ran) < Len(call.document_paths)
    /\ CountWordsOf(FileAt(BatchPath)).kind = "stats"
    /\ result' = [result EXCEPT !.results = Append(@, BatchEntry(BatchPath))]
    /\ ran' = Append(ran, "count_words")
    /\ UNCHANGED <<call, env, pc, tokens, log>>

(* except Exception as e: results.append({'file': ..., 'error': str(e)}) *)
BatchAppendError ==
    /\ pc = "loop"
    /\ Len(ran) < Len(call.document_paths)
    /\ CountWordsOf(FileAt(BatchPath)).kind = "raised"
    /\ result' = [result EXCEPT !.results = Append(@, BatchEntry(BatchPath))]
    /\ ran' = Append(ran, CountWordsOf(FileAt(BatchPath)).exc)
    /\ UNCHANGED <<call, env, pc, tokens, log>>

(* return results *)
BatchReturn ==
    /\ pc = "loop"
    /\ Len(ran) = Len(call.document_paths)
    /\ pc' = "done"
    /\ UNCHANGED <<call, env, ran, tokens, log, result>>

BatchNext ==
    \/ BatchAppend
    \/ BatchAppendError
    \/ BatchReturn

SpecBatch == BatchInit /\ [][BatchNext]_vars

----------------------------------------------------------------------------

(* SEOAnalyzer.keyword_density. *)

(* whether sub occurs in t at position i *)
OccursAt(t, sub, i) ==
    /\ i + Len(sub) - 1 <= Len(t)
    /\ \A j \in 1..Len(sub) : t[i + j - 1] = sub[j]

(* str.count(sub): non-overlapping occurrences, left to right *)
RECURSIVE CountOccFrom(_, _, _)
CountOccFrom(t, sub, i) ==
    IF i > Len(t) THEN 0
    ELSE IF OccursAt(t, sub, i) THEN 1 + CountOccFrom(t, sub, i + Len(sub))
    ELSE CountOccFrom(t, sub, i + 1)

(* the occurrences of sub in t as a whole word *)
StrCountWholeWords(t, sub) ==
    Cardinality({i \in 1..Len(t) :
        /\ OccursAt(t, sub, i)
        /\ (i = 1 \/ ~IsWordChar(t[i - 1]))
        /\ (i + Len(sub) > Len(t) \/ ~IsWordChar(t[i + Len(sub)]))})

StrCount(t, sub) ==
    IF sub = <<>> THEN Len(t) + 1 ELSE CountOccFrom(t, sub, 1)

(* {keyword: text.lower().count(keyword.lower()) for keyword in keywords} *)
RECURSIVE KeywordCountsFrom(_, _, _, _)
KeywordCountsFrom(text, keywords, i, d) ==
    IF i > Len(keywords) THEN d
    ELSE KeywordCountsFrom(text, keywords, i + 1,
             Put(d, keywords[i],
                 StrCount(LowerText(text), LowerText(keywords[i]))))

KeywordCounts(text, keywords) == KeywordCountsFrom(text, keywords, 1, <<>>)

(* (count / total_words) * 100, kept as the exact fraction num / den *)
Density(count, total) == [num |-> count * 100, den |-> total]

(* keyword_density as the whole call: the division raises when there are  *)
(* no tokens and at least one keyword                                      *)
KeywordDensity(text, keywords, e) ==
    LET total == Len(SafeTokenize(text, e).tokens)
        counts == KeywordCounts(text, keywords)
    IN  IF total = 0 /\ counts # <<>>
        THEN Raised("ZeroDivisionError")
        ELSE [kind |-> "density",
              table |-> [i \in 1..Len(counts) |->
                            Entry(counts[i].k, Density(counts[i].v, total))]]

Str_X == <<"x">>
Str_Seo == <<"s", "e", "o">>

(* "seo seo content" *)
SeoText ==
    <<"s", "e", "o", " ", "s", "e", "o", " ", "c", "o", "n", "t", "e", "n", "t">>

KeywordPool == {<<"a">>, <<"B">>, <<"_">>, Str_X}

(* a keyword that overlaps itself in the text: "aaa".count("aa") *)
Str_AA == <<"a", "a">>
Str_AAA == <<"a", "a", "a">>

DensityCalls ==
    {[op |-> "keyword_density", text |-> t, keywords |-> k] :
        t \in TextsUpTo(MaxShort + 1) \cup {HelloText},
        k \in UNION {[1..n -> KeywordPool] : n \in 0..MaxKeywords}}
        \cup {[op |-> "keyword_density", text |-> SeoText, keywords |-> <<Str_Seo>>],
              [op |-> "keyword_density", text |-> Str_AAA, keywords |-> <<Str_AA>>]}

DensityInit ==
    /\ call \in DensityCalls
    /\ env \in TierEnvs
    /\ pc = "start"
    /\ ran = <<>>
    /\ tokens = <<>>
    /\ log = <<>>
    /\ result = NoResult

(* keyword_density returns its mapping *)
KeywordDensityReturns ==
    /\ pc = "start"
    /\ call.op = "keyword_density"
    /\ LET st == SafeTokenize(call.text, env)
           r == KeywordDensity(call.text, call.keywords, env)
       IN  /\ r.kind = "density"
           /\ tokens' = st.tokens
           /\ log' = log \o st.log
           /\ result' = r
    /\ pc' = "done"
    /\ UNCHANGED <<call, env, ran>>

(* count / total_words raises ZeroDivisionError, which nothing catches *)
KeywordDensityRaises ==
    /\ pc = "start"
    /\ call.op = "keyword_density"
    /\ LET st == SafeTokenize(call.text, env)
           r == KeywordDensity(call.text, call.keywords, env)
       IN  /\ r.kind = "raised"
           /\ tokens' = st.tokens
           /\ log' = log \o st.log
           /\ result' = r
    /\ pc' = "done"
    /\ UNCHANGED <<call, env, ran>>

DensityNext ==
    \/ KeywordDensityReturns
    \/ KeywordDensityRaises

SpecDensity == DensityInit /\ [][DensityNext]_vars

----------------------------------------------------------------------------
(* The other scorers of SEOAnalyzer, as the facade calls them. *)

GetComplexityLevelRangeChecked(score) ==
    IF score < 0 \/ score > 100 * 1000 THEN "Ungültig"
    ELSE IF score < 30 * 1000 THEN "Sehr schwierig"
    ELSE IF score < 50 * 1000 THEN "Schwierig"
    ELSE IF score < 60 * 1000 THEN "Etwas schwierig"
    ELSE IF score < 70 * 1000 THEN "Standard"
    ELSE "Leicht verständlich"

(* the classification with each boundary value in the lower range *)
GetComplexityLevelInclusive(score) ==
    IF score <= 30 * 1000 THEN "Sehr schwierig"
    ELSE IF score <= 50 * 1000 THEN "Schwierig"
    ELSE IF score <= 60 * 1000 THEN "Etwas schwierig"
    ELSE IF score <= 70 * 1000 THEN "Standard"
    ELSE "Leicht verständlich"

(* SEOAnalyzer._get_complexity_level, the score in thousandths *)
GetComplexityLevel(score) ==
    IF score < 30 * 1000 THEN "Sehr schwierig"
    ELSE IF 30 * 1000 <= score /\ score < 50 * 1000 THEN "Schwierig"
    ELSE IF 50 * 1000 <= score /\ score < 60 * 1000 THEN "Etwas schwierig"
    ELSE IF 60 * 1000 <= score /\ score < 70 * 1000 THEN "Standard"
    ELSE "Leicht verständlich"

(* readability_metrics with the zero score of the except branch classified *)
ReadabilityMetricsClassifyZero(e) ==
    IF e.flesch.ok /\ e.flesch.grade_ok
    THEN [flesch_reading_ease |-> e.flesch.ease,
          flesch_kincaid_grade |-> e.flesch.grade,
          complexity_level |-> GetComplexityLevel(e.flesch.ease)]
    ELSE [flesch_reading_ease |-> 0,
          flesch_kincaid_grade |-> 0,
          complexity_level |-> GetComplexityLevel(0)]

(* SEOAnalyzer.readability_metrics: a failing formula is caught inside *)
ReadabilityMetrics(e) ==
    IF e.flesch.ok /\ e.flesch.grade_ok
    THEN [flesch_reading_ease |-> e.flesch.ease,
          flesch_kincaid_grade |-> e.flesch.grade,
          complexity_level |-> GetComplexityLevel(e.flesch.ease)]
    ELSE [flesch_reading_ease |-> 0,
          flesch_kincaid_grade |-> 0,
          complexity_level |-> "Unbekannt"]

ReadabilityLog(e) ==
    IF e.flesch.ok /\ e.flesch.grade_ok
    THEN <<>>
    ELSE <<LogRec("WARNING", "readability")>>

(* the set get_stopwords falls back to *)
FallbackStopwords ==
    {<<"d", "e", "r">>, <<"d", "i", "e">>, <<"d", "a", "s">>, <<"u", "n", "d">>,
     <<"o", "d", "e", "r">>, <<"i", "n">>, <<"z", "u">>, <<"e", "i", "n">>,
     <<"e", "i", "n", "e">>}

(* stopwords.words('german'), as far as the model's words go *)
StopwordCorpus ==
    FallbackStopwords \cup {<<"a", "n">>, <<"a", "l", "s">>, <<"d", "a">>, <<"s", "o">>}

(* stopwords.words('english'), as far as the model's words go *)
EnglishStopwords ==
    {<<"t", "h", "e">>, <<"a", "n", "d">>, <<"a">>, <<"a", "n">>, <<"a", "s">>,
     <<"i", "n">>, <<"s", "o">>, <<"o", "r">>, <<"t", "o">>, <<"i">>, <<"d">>,
     <<"o">>, <<"s">>, <<"t">>, <<"y">>}

(* the languages the installed NLTK data covers: stopword lists and punkt *)
NltkLanguages == {"german", "english"}

(* get_stopwords that gives up without a list: the empty set *)
GetStopwordsEmptyOnFailure(language, e) ==
    IF e.stop /\ language \in {"german", "english"}
    THEN (IF language = "english" THEN EnglishStopwords ELSE StopwordCorpus)
    ELSE {}

(* SEOAnalyzer.get_stopwords(language): stopwords.words raises for a       *)
(* missing corpus and for a language without a list                        *)
GetStopwordsFor(language, e) ==
    IF e.stop /\ language \in NltkLanguages
    THEN (IF language = "english" THEN EnglishStopwords ELSE StopwordCorpus)
    ELSE FallbackStopwords

StopwordsLogFor(language, e) ==
    IF e.stop /\ language \in NltkLanguages
    THEN <<>>
    ELSE <<LogRec("WARNING", "stopwords")>>

(* SEOAnalyzer.get_stopwords with the default language *)
GetStopwords(e) == GetStopwordsFor("german", e)

StopwordsLog(e) == StopwordsLogFor("german", e)

(* safe_tokenize(text, language): word_tokenize raises for a language      *)
(* without punkt data                                                      *)
SafeTokenizeIn(text, language, e) ==
    SafeTokenize(text, [e EXCEPT !.nltk = e.nltk /\ language \in NltkLanguages])

(* [word for word in tokens if word.isalnum()]: the stopwords stay *)
RECURSIVE MeaningfulKeepStopwords(_, _)
MeaningfulKeepStopwords(toks, stop) ==
    IF toks = <<>> THEN <<>>
    ELSE IF IsAlnum(Head(toks))
         THEN <<Head(toks)>> \o MeaningfulKeepStopwords(Tail(toks), stop)
         ELSE MeaningfulKeepStopwords(Tail(toks), stop)

(* [word for word in tokens if word.isalnum() and word not in stop_words] *)
RECURSIVE Meaningful(_, _)
Meaningful(toks, stop) ==
    IF toks = <<>> THEN <<>>
    ELSE IF IsAlnum(Head(toks)) /\ Head(toks) \notin stop
         THEN <<Head(toks)>> \o Meaningful(Tail(toks), stop)
         ELSE Meaningful(Tail(toks), stop)

(* what the except branch of semantic_analysis returns *)
SemanticZero ==
    [unique_meaningful_words |-> 0, top_meaningful_words |-> <<>>]

(* semantic_analysis without the try: the exception of FreqDist leaves it *)
SemanticAnalysisUncaught(text, language, e) ==
    LET words == Meaningful(SafeTokenizeIn(text, language, e).tokens,
                            GetStopwordsFor(language, e))
    IN  IF e.freq
        THEN [unique_meaningful_words |-> DistinctCount(words),
              top_meaningful_words |-> GetWordFrequency(words, MostCommonN)]
        ELSE [unique_meaningful_words |-> 0 - 1, top_meaningful_words |-> <<>>,
              kind |-> "raised"]

(* SEOAnalyzer.semantic_analysis(text, language); FreqDist.most_common(10) *)
(* is the stable descending sort of the counts, cut to 10; an exception    *)
(* inside the try gives the zero result                                    *)
SemanticAnalysisIn(text, language, e) ==
    LET words == Meaningful(SafeTokenizeIn(text, language, e).tokens,
                            GetStopwordsFor(language, e))
    IN  IF e.freq
        THEN [unique_meaningful_words |-> DistinctCount(words),
              top_meaningful_words |-> GetWordFrequency(words, MostCommonN)]
        ELSE SemanticZero

(* the log records of one semantic_analysis call *)
SemanticLog(text, language, e) ==
    StopwordsLogFor(language, e)
        \o SafeTokenizeIn(text, language, e).log
        \o (IF e.freq THEN <<>> ELSE <<LogRec("WARNING", "semantic")>>)

(* SEOAnalyzer.semantic_analysis with the default language *)
SemanticAnalysis(text, e) == SemanticAnalysisIn(text, "german", e)

(* math.log(k) in ten-thousandths, k = 1..12 *)
LnE4(k) ==
    <<0, 6931, 10986, 13863, 16094, 17918, 19459, 20794, 21972, 23026,
      23979, 24849>>[k]

(* math.log((total_docs + 1) / (df + 1)): both counts smoothed *)
IdfSmoothedBoth(total_docs, df) == LnE4(total_docs + 1) - LnE4(df + 1)

(* math.log(total_docs / df): the idf without the + 1 in the denominator *)
IdfUnsmoothed(total_docs, df) == LnE4(total_docs) - LnE4(df)

(* math.log((df + 1) / total_docs): the quotient turned over *)
IdfInverted(total_docs, df) == LnE4(df + 1) - LnE4(total_docs)

(* math.log(total_docs / (df + 1)) *)
Idf(total_docs, df) == LnE4(total_docs) - LnE4(df + 1)

(* within_document_frequency *)
Wdf(term_count) == IF term_count > 0 THEN LnE4(1 + term_count) ELSE 0

(* doc.count(term) *)
TermCount(doc, term) == Cardinality({i \in 1..Len(doc) : doc[i] = term})

(* document_frequency *)
DocumentFrequency(docs, term) ==
    Cardinality({i \in 1..Len(docs) : TermCount(docs[i], term) > 0})

(* preprocess: safe_tokenize, then the tokens with isalnum() *)
Preprocess(text, e) == SelectAlnum(SafeTokenize(text, e).tokens)

(* the elements of set(doc), listed in the order of first occurrence *)
TermsOf(doc) ==
    LET d == WordFreq(doc) IN [i \in 1..Len(d) |-> d[i].k]

(* set(doc) as a for loop iterates it: in the order of the hashes, which  *)
(* the seed of the process decides; a set of one string has one order     *)
SetOrder(doc, e) ==
    LET t == TermsOf(doc)
    IN  IF Len(t) <= 1 THEN t ELSE e.hashseed[t]

(* every order the elements of a set can be found in *)
SetOrders(t) ==
    {p \in [1..Len(t) -> {t[i] : i \in 1..Len(t)}] :
        \A i, j \in 1..Len(t) : p[i] = p[j] => i = j}

(* the sets with more than one order that the texts give under e *)
IteratedSets(texts, e) ==
    {k \in {TermsOf(Preprocess(t, e)) : t \in texts} : Len(k) > 1}

(* what the hash seeds a process can start with make of these sets: any   *)
(* order for each of them                                                  *)
HashSeeds(texts, e) ==
    LET K == IteratedSets(texts, e)
    IN  {h \in [K -> UNION {SetOrders(k) : k \in K}] :
            \A k \in K : h[k] \in SetOrders(k)}

(* the processes that find what one of envs finds, under any hash seed *)
Seeded(envs, texts) ==
    UNION {{[e EXCEPT !.hashseed = h] : h \in HashSeeds(texts, e)} : e \in envs}

(* for term in set(doc): wdf_idf_results[term] = wdf * idf *)
RECURSIVE WdfIdfTerms(_, _, _, _, _)
WdfIdfTerms(docs, doc, terms, i, d) ==
    IF i > Len(terms) THEN d
    ELSE WdfIdfTerms(docs, doc, terms, i + 1,
             Put(d, terms[i],
                 Wdf(TermCount(doc, terms[i]))
                     * Idf(Len(docs), DocumentFrequency(docs, terms[i]))))

(* for doc in processed_docs: ... *)
RECURSIVE WdfIdfDocs(_, _, _, _)
WdfIdfDocs(docs, i, d, e) ==
    IF i > Len(docs) THEN d
    ELSE WdfIdfDocs(docs, i + 1,
             WdfIdfTerms(docs, docs[i], SetOrder(docs[i], e), 1, d), e)

(* SEOAnalyzer.calculate_wdf_idf; scores in units of 1e-8 *)
CalculateWdfIdf(documents, e) ==
    LET docs == [i \in 1..Len(documents) |-> Preprocess(documents[i], e)]
    IN  SortedDesc(WdfIdfDocs(docs, 1, <<>>, e))

(* term_frequency: doc.count(term) / len(doc), which raises               *)
(* ZeroDivisionError for a document without tokens                         *)
TermFrequency(doc, term) ==
    IF Len(doc) = 0
    THEN [ok |-> FALSE, num |-> 0, den |-> 0]
    ELSE [ok |-> TRUE, num |-> TermCount(doc, term), den |-> Len(doc)]

(* the argument of math.log: total_docs / (document_frequency(term) + 1) *)
LogArg(total_docs, df) == [num |-> total_docs, den |-> df + 1]

(* tf * idf, in units of 1e-8 *)
TfIdfScore(tf, idf) == (tf.num * idf * 10000) \div tf.den

(* for term in vocabulary: every term of the corpus, for each document *)
LoopTermsVocabulary(docs, i, e) ==
    LET V == UNION {{docs[d][j] : j \in 1..Len(docs[d])} : d \in 1..Len(docs)}
    IN  CHOOSE s \in [1..Cardinality(V) -> V] : {s[j] : j \in 1..Cardinality(V)} = V

(* for term in set(doc), for the i-th document *)
LoopTerms(docs, i, e) == SetOrder(docs[i], e)

(* for term in set(doc): tf_idf_results[term] = tf * idf *)
RECURSIVE TfIdfTerms(_, _, _, _, _)
TfIdfTerms(docs, doc, terms, i, d) ==
    IF i > Len(terms) THEN d
    ELSE TfIdfTerms(docs, doc, terms, i + 1,
             Put(d, terms[i],
                 TfIdfScore(TermFrequency(doc, terms[i]),
                            Idf(Len(docs), DocumentFrequency(docs, terms[i])))))

(* for doc in processed_docs: ... *)
RECURSIVE TfIdfDocs(_, _, _, _)
TfIdfDocs(docs, i, d, e) ==
    IF i > Len(docs) THEN d
    ELSE TfIdfDocs(docs, i + 1,
             TfIdfTerms(docs, docs[i], LoopTerms(docs, i, e), 1, d), e)

(* the exception the loop of calculate_tf_idf stops with, "" if none *)
TfIdfFailure(docs, e) ==
    IF \E i \in 1..Len(docs) : \E j \in 1..Len(LoopTerms(docs, i, e)) :
           ~TermFrequency(docs[i], LoopTerms(docs, i, e)[j]).ok
    THEN "ZeroDivisionError"
    ELSE IF \E i \in 1..Len(docs) : \E j \in 1..Len(LoopTerms(docs, i, e)) :
                LogArg(Len(docs),
                       DocumentFrequency(docs, LoopTerms(docs, i, e)[j])).num <= 0
    THEN "ValueError"
    ELSE ""

(* SEOAnalyzer.calculate_tf_idf; scores in units of 1e-8 *)
CalculateTfIdf(documents, e) ==
    LET docs == [i \in 1..Len(documents) |-> Preprocess(documents[i], e)]
    IN  IF TfIdfFailure(docs, e) # ""
        THEN Raised(TfIdfFailure(docs, e))
        ELSE [kind |-> "scores", table |-> SortedDesc(TfIdfDocs(docs, 1, <<>>, e))]

----------------------------------------------------------------------------
(* The corpus scorers, each called on a list of documents. *)

(* the documents the corpora are built from: without tokens, with tokens  *)
(* that preprocess drops, with one term, with shared and repeated terms   *)
CorpusTexts ==
    {<<>>,
     <<"_">>,
     <<"a">>,
     <<"b">>,
     <<"a", " ", "b">>,
     <<"a", " ", "b", " ", "a">>,
     <<"b", " ", "c", " ", "c">>}

RECURSIVE CorporaOfLen(_)
CorporaOfLen(n) ==
    IF n = 0 THEN {<<>>}
    ELSE {<<t>> \o c : t \in CorpusTexts, c \in CorporaOfLen(n - 1)}

Corpora == UNION {CorporaOfLen(n) : n \in 0..MaxDocs}

ScoreCalls ==
    {[op |-> o, documents |-> c] :
        o \in {"calculate_tf_idf", "calculate_wdf_idf"}, c \in Corpora}

(* the log records safe_tokenize writes while the documents are preprocessed *)
RECURSIVE PreprocessLog(_, _)
PreprocessLog(documents, e) ==
    IF documents = <<>> THEN <<>>
    ELSE SafeTokenize(Head(documents), e).log
             \o PreprocessLog(Tail(documents), e)

(* each tokenizer tier, under every hash seed *)
ScoreEnvs(documents) ==
    Seeded(TierEnvs, {documents[i] : i \in 1..Len(documents)})

ScoreInit ==
    /\ call \in ScoreCalls
    /\ env \in ScoreEnvs(call.documents)
    /\ pc = "score"
    /\ ran = <<>>
    /\ tokens = <<>>
    /\ log = <<>>
    /\ result = NoResult

TfIdf ==
    /\ pc = "score"
    /\ call.op = "calculate_tf_idf"
    /\ result' = CalculateTfIdf(call.documents, env)
    /\ log' = PreprocessLog(call.documents, env)
    /\ ran' = <<"calculate_tf_idf">>
    /\ pc' = "done"
    /\ UNCHANGED <<call, env, tokens>>

WdfIdf ==
    /\ pc = "score"
    /\ call.op = "calculate_wdf_idf"
    /\ result' = [kind |-> "scores",
                  table |-> CalculateWdfIdf(call.documents, env)]
    /\ log' = PreprocessLog(call.documents, env)
    /\ ran' = <<"calculate_wdf_idf">>
    /\ pc' = "done"
    /\ UNCHANGED <<call, env, tokens>>

ScoreNext ==
    \/ TfIdf
    \/ WdfIdf

SpecScore == ScoreInit /\ [][ScoreNext]_vars

----------------------------------------------------------------------------
(* Every operation that returns a table of (key, value) entries: the word *)
(* statistics and the corpus scorers.                                      *)

TablesInit == CountInit \/ ScoreInit

TablesNext ==
    \/ CountNext
    \/ ScoreNext

SpecTables == TablesInit /\ [][TablesNext]_vars

----------------------------------------------------------------------------
(* SEOAnalyzer.readability_metrics, formula by formula, and               *)
(* _get_complexity_level called on a score.                                *)

(* the ease scores textstat can give, in thousandths: whole points up to  *)
(* MaxEase either side of 0, and the scores next to each threshold         *)
EaseScores ==
    {s * 1000 : s \in (0 - MaxEase)..MaxEase}
        \cup UNION {{b * 1000 - 1, b * 1000 + 1} : b \in {30, 50, 60, 70}}

ReadabilityEnvs ==
    {Env(TRUE, TRUE, TRUE,
         [ok |-> o, grade_ok |-> g, ease |-> s, grade |-> 8 * 1000]) :
        o \in BOOLEAN, g \in BOOLEAN, s \in EaseScores}

ReadabilityCalls ==
    {[op |-> "readability_metrics", text |-> HelloText]}
        \cup {[op |-> "get_complexity_level", score |-> s] : s \in EaseScores}

ReadabilityInit ==
    /\ call \in ReadabilityCalls
    /\ env \in IF call.op = "readability_metrics"
               THEN ReadabilityEnvs
               ELSE {Env(TRUE, TRUE, TRUE, FleschRaises)}
    /\ pc = "ease"
    /\ ran = <<>>
    /\ tokens = <<>>
    /\ log = <<>>
    /\ result = NoResult

(* flesch_ease = flesch_reading_ease(text) *)
FleschEase ==
    /\ pc = "ease"
    /\ call.op = "readability_metrics"
    /\ env.flesch.ok
    /\ ran' = Append(ran, "flesch_reading_ease")
    /\ pc' = "grade"
    /\ UNCHANGED <<call, env, tokens, log, result>>

(* flesch_reading_ease raises: except Exception *)
FleschEaseRaises ==
    /\ pc = "ease"
    /\ call.op = "readability_metrics"
    /\ ~env.flesch.ok
    /\ ran' = Append(ran, "raise:flesch_reading_ease")
    /\ log' = log \o ReadabilityLog(env)
    /\ result' = [kind |-> "readability", metrics |-> ReadabilityMetrics(env)]
    /\ pc' = "done"
    /\ UNCHANGED <<call, env, tokens>>

(* flesch_grade = flesch_kincaid_grade(text), then the return *)
FleschGrade ==
    /\ pc = "grade"
    /\ env.flesch.grade_ok
    /\ ran' = Append(ran, "flesch_kincaid_grade")
    /\ result' = [kind |-> "readability", metrics |-> ReadabilityMetrics(env)]
    /\ pc' = "done"
    /\ UNCHANGED <<call, env, tokens, log>>

(* flesch_kincaid_grade raises: except Exception *)
FleschGradeRaises ==
    /\ pc = "grade"
    /\ ~env.flesch.grade_ok
    /\ ran' = Append(ran, "raise:flesch_kincaid_grade")
    /\ log' = log \o ReadabilityLog(env)
    /\ result' = [kind |-> "readability", metrics |-> ReadabilityMetrics(env)]
    /\ pc' = "done"
    /\ UNCHANGED <<call, env, tokens>>

(* _get_complexity_level(score) *)
ComplexityLevel ==
    /\ pc = "ease"
    /\ call.op = "get_complexity_level"
    /\ result' = [kind |-> "level", level |-> GetComplexityLevel(call.score)]
    /\ pc' = "done"
    /\ UNCHANGED <<call, env, ran, tokens, log>>

ReadabilityNext ==
    \/ FleschEase
    \/ FleschEaseRaises
    \/ FleschGrade
    \/ FleschGradeRaises
    \/ ComplexityLevel

SpecReadability == ReadabilityInit /\ [][ReadabilityNext]_vars

----------------------------------------------------------------------------
(* SEOAnalyzer.semantic_analysis called on a text and a language. *)

(* "the cat and the dog and the cat" *)
CatDogText ==
    <<"t", "h", "e", " ", "c", "a", "t", " ", "a", "n", "d", " ",
      "t", "h", "e", " ", "d", "o", "g", " ", "a", "n", "d", " ",
      "t", "h", "e", " ", "c", "a", "t">>

(* a language NLTK has data for or not *)
SemanticLanguages == NltkLanguages \cup {"xx"}

SemanticCalls ==
    {[op |-> "semantic_analysis", text |-> t, language |-> l] :
        t \in TextsUpTo(MaxShort + 1) \cup {HelloText, CatDogText} \cup LongParas,
        l \in SemanticLanguages}

SemanticEnvs ==
    {[e EXCEPT !.stop = st, !.freq = f] :
        e \in TierEnvs, st \in BOOLEAN, f \in BOOLEAN}

SemanticInit ==
    /\ call \in SemanticCalls
    /\ env \in SemanticEnvs
    /\ pc = "start"
    /\ ran = <<>>
    /\ tokens = <<>>
    /\ log = <<>>
    /\ result = NoResult

(* the try block runs to its return *)
SemanticReturns ==
    /\ pc = "start"
    /\ call.op = "semantic_analysis"
    /\ env.freq
    /\ tokens' = SafeTokenizeIn(call.text, call.language, env).tokens
    /\ log' = SemanticLog(call.text, call.language, env)
    /\ result' = SemanticAnalysisIn(call.text, call.language, env)
                     @@ [kind |-> "semantic"]
    /\ ran' = <<"get_stopwords", "safe_tokenize", "most_common">>
    /\ pc' = "done"
    /\ UNCHANGED <<call, env>>

(* FreqDist raises: except Exception, a warning and the zero result *)
SemanticCaught ==
    /\ pc = "start"
    /\ call.op = "semantic_analysis"
    /\ ~env.freq
    /\ tokens' = SafeTokenizeIn(call.text, call.language, env).tokens
    /\ log' = SemanticLog(call.text, call.language, env)
    /\ result' = SemanticAnalysisIn(call.text, call.language, env)
                     @@ [kind |-> "semantic"]
    /\ ran' = <<"get_stopwords", "safe_tokenize", "raise:most_common">>
    /\ pc' = "done"
    /\ UNCHANGED <<call, env>>

SemanticNext ==
    \/ SemanticReturns
    \/ SemanticCaught

SpecSemantic == SemanticInit /\ [][SemanticNext]_vars

----------------------------------------------------------------------------
(* SEOAnalyzer.get_stopwords called on a language key. *)

(* language keys: with a list, and without one *)
StopwordLanguages == NltkLanguages \cup {"xx", "de", "deutsch", "klingon"}

StopwordCalls ==
    {[op |-> "get_stopwords", language |-> l] : l \in StopwordLanguages}

StopwordsInit ==
    /\ call \in StopwordCalls
    /\ env \in SemanticEnvs
    /\ pc = "start"
    /\ ran = <<>>
    /\ tokens = <<>>
    /\ log = <<>>
    /\ result = NoResult

(* return set(stopwords.words(language)) *)
StopwordsLoaded ==
    /\ pc = "start"
    /\ call.op = "get_stopwords"
    /\ env.stop /\ call.language \in NltkLanguages
    /\ result' = [kind |-> "stopwords", words |-> GetStopwordsFor(call.language, env)]
    /\ log' = log \o StopwordsLogFor(call.language, env)
    /\ ran' = <<"stopwords.words">>
    /\ pc' = "done"
    /\ UNCHANGED <<call, env, tokens>>

(* stopwords.words raises: the warning, then the literal fallback set *)
StopwordsFallback ==
    /\ pc = "start"
    /\ call.op = "get_stopwords"
    /\ ~(env.stop /\ call.language \in NltkLanguages)
    /\ result' = [kind |-> "stopwords", words |-> GetStopwordsFor(call.language, env)]
    /\ log' = log \o StopwordsLogFor(call.language, env)
    /\ ran' = <<"raise:stopwords.words">>
    /\ pc' = "done"
    /\ UNCHANGED <<call, env, tokens>>

StopwordsNext ==
    \/ StopwordsLoaded
    \/ StopwordsFallback

SpecStopwords == StopwordsInit /\ [][StopwordsNext]_vars

----------------------------------------------------------------------------
(* A process that calls the scorers one after another.  ran is the list   *)
(* of the calls that have returned, each with its output; tokens holds     *)
(* the locals of the call in progress and, between calls, what the last    *)
(* calls left in them; env is what the process found when it started and   *)
(* does not change.                                                        *)

Str_AB == <<"a", " ", "b">>
Str_BCC == <<"b", " ", "c", " ", "c">>

SessionCorpora == {<<Str_AB>>, <<Str_BCC>>, <<Str_AB, <<"a">>>>}

SessionCalls ==
    {[op |-> "calculate_tf_idf", documents |-> c] : c \in SessionCorpora}
        \cup {[op |-> "calculate_wdf_idf", documents |-> c] :
                 c \in {<<Str_AB>>, <<Str_AB, <<"a">>>>}}
        \cup {[op |-> "semantic_analysis", text |-> CatDogText, language |-> l] :
                 l \in NltkLanguages}
        \cup {[op |-> "keyword_density", text |-> Str_AB, keywords |-> <<<<"a">>>>],
              [op |-> "readability_metrics", text |-> HelloText]}

SessionEnvs ==
    Seeded({Env(n, TRUE, TRUE, f) :
               n \in BOOLEAN,
               f \in {[ok |-> TRUE, grade_ok |-> TRUE, ease |-> 65 * 1000,
                       grade |-> 8 * 1000]}},
           UNION {{c[i] : i \in 1..Len(c)} : c \in SessionCorpora})

(* what a scorer returns for a call: the static methods of SEOAnalyzer    *)
(* work on their arguments and on what the process finds                   *)
ScorerResult(c, e) ==
    CASE c.op = "calculate_tf_idf" -> CalculateTfIdf(c.documents, e)
      [] c.op = "calculate_wdf_idf" ->
             [kind |-> "scores", table |-> CalculateWdfIdf(c.documents, e)]
      [] c.op = "semantic_analysis" ->
             SemanticAnalysisIn(c.text, c.language, e) @@ [kind |-> "semantic"]
      [] c.op = "keyword_density" -> KeywordDensity(c.text, c.keywords, e)
      [] c.op = "readability_metrics" ->
             [kind |-> "readability", metrics |-> ReadabilityMetrics(e)]

(* the locals of the call in progress: processed_docs, the index of the   *)
(* document the loop is at, the result dict (tf_idf_results,               *)
(* wdf_idf_results, keyword_counts), tokens and stop_words.  The model     *)
(* keeps them in one record that outlives the call; a call sees only what  *)
(* it has assigned itself                                                  *)
Locals(docs, at, results, toks, stop) ==
    [docs |-> docs, at |-> at, results |-> results, toks |-> toks, stop |-> stop]

(* a result dict that is not made anew: what the call before left in it   *)
NewDictLeftover(left) == left

(* tf_idf_results = {}, wdf_idf_results = {}: the dict a call starts with, *)
(* whatever the dict of the call before (left) held                        *)
NewDict(left) == <<>>

(* the log records a scorer writes up to its first loop or its return *)
ScorerLog(c, e) ==
    CASE c.op \in {"calculate_tf_idf", "calculate_wdf_idf"} ->
             PreprocessLog(c.documents, e)
      [] c.op = "semantic_analysis" ->
             StopwordsLogFor(c.language, e)
                 \o SafeTokenizeIn(c.text, c.language, e).log
      [] c.op = "keyword_density" -> SafeTokenize(c.text, e).log
      [] c.op = "readability_metrics" -> <<>>

SessionInit ==
    /\ env \in SessionEnvs
    /\ call = [op |-> "none"]
    /\ pc = "idle"
    /\ ran = <<>>
    /\ tokens = Locals(<<>>, 1, <<>>, <<>>, {})
    /\ log = <<>>
    /\ result = NoResult

(* a corpus scorer is called: processed_docs, the empty result dict, and   *)
(* the loop at its first document                                          *)
SessionCorpusCall ==
    /\ pc = "idle"
    /\ Len(ran) < MaxCalls
    /\ \E c \in SessionCalls :
           /\ c.op \in {"calculate_tf_idf", "calculate_wdf_idf"}
           /\ call' = c
           /\ tokens' = [tokens EXCEPT
                  !.docs = [i \in 1..Len(c.documents) |->
                               Preprocess(c.documents[i], env)],
                  !.at = 1,
                  !.results = NewDict(@)]
           /\ log' = log \o ScorerLog(c, env)
    /\ pc' = "docs"
    /\ result' = NoResult
    /\ UNCHANGED <<env, ran>>

(* for doc in processed_docs: the scores of the terms of one document go   *)
(* into the result dict                                                    *)
SessionDocument ==
    /\ pc = "docs"
    /\ tokens.at <= Len(tokens.docs)
    /\ LET doc == tokens.docs[tokens.at]
           terms == SetOrder(doc, env)
       IN  tokens' = [tokens EXCEPT
               !.at = @ + 1,
               !.results = IF call.op = "calculate_tf_idf"
                           THEN TfIdfTerms(tokens.docs, doc, terms, 1, @)
                           ELSE WdfIdfTerms(tokens.docs, doc, terms, 1, @)]
    /\ UNCHANGED <<call, env, pc, ran, log, result>>

(* return dict(sorted(..., reverse=True)) *)
SessionCorpusReturn ==
    /\ pc = "docs"
    /\ tokens.at > Len(tokens.docs)
    /\ LET out == [kind |-> "scores", table |-> SortedDesc(tokens.results)]
       IN  /\ result' = out
           /\ ran' = Append(ran, [call |-> call, out |-> out])
    /\ pc' = "idle"
    /\ UNCHANGED <<call, env, tokens, log>>

(* a scorer of a single text is called: tokens, stop_words and             *)
(* keyword_counts are assigned; readability_metrics has no locals to keep  *)
SessionTextCall ==
    /\ pc = "idle"
    /\ Len(ran) < MaxCalls
    /\ \E c \in SessionCalls :
           /\ c.op \in {"semantic_analysis", "keyword_density",
                        "readability_metrics"}
           /\ call' = c
           /\ tokens' =
                  CASE c.op = "semantic_analysis" ->
                           [tokens EXCEPT
                               !.stop = GetStopwordsFor(c.language, env),
                               !.toks = SafeTokenizeIn(c.text, c.language, env).tokens]
                    [] c.op = "keyword_density" ->
                           [tokens EXCEPT
                               !.toks = SafeTokenize(c.text, env).tokens,
                               !.results = KeywordCounts(c.text, c.keywords)]
                    [] OTHER -> tokens
           /\ log' = log \o ScorerLog(c, env)
    /\ pc' = "text"
    /\ result' = NoResult
    /\ UNCHANGED <<env, ran>>

(* what the scorer of a single text returns, from its locals *)
SessionTextOut(c, locals, e) ==
    CASE c.op = "semantic_analysis" ->
             (LET words == Meaningful(locals.toks, locals.stop)
              IN  IF e.freq
                  THEN [unique_meaningful_words |-> DistinctCount(words),
                        top_meaningful_words |->
                            GetWordFrequency(words, MostCommonN)]
                  ELSE SemanticZero) @@ [kind |-> "semantic"]
      [] c.op = "keyword_density" ->
             IF Len(locals.toks) = 0 /\ locals.results # <<>>
             THEN Raised("ZeroDivisionError")
             ELSE [kind |-> "density",
                   table |-> [i \in 1..Len(locals.results) |->
                                 Entry(locals.results[i].k,
                                       Density(locals.results[i].v,
                                               Len(locals.toks)))]]
      [] c.op = "readability_metrics" ->
             [kind |-> "readability", metrics |-> ReadabilityMetrics(e)]

(* the scorer of a single text returns, or raises; the warnings of the    *)
(* except branches of semantic_analysis and readability_metrics            *)
SessionTextReturn ==
    /\ pc = "text"
    /\ LET out == SessionTextOut(call, tokens, env)
       IN  /\ result' = out
           /\ ran' = Append(ran, [call |-> call, out |-> out])
    /\ log' = CASE call.op = "semantic_analysis" /\ ~env.freq ->
                        Append(log, LogRec("WARNING", "semantic"))
                 [] call.op = "readability_metrics" ->
                        log \o ReadabilityLog(env)
                 [] OTHER -> log
    /\ pc' = "idle"
    /\ UNCHANGED <<call, env, tokens>>

SessionNext ==
    \/ SessionCorpusCall
    \/ SessionDocument
    \/ SessionCorpusReturn
    \/ SessionTextCall
    \/ SessionTextReturn

SpecSession == SessionInit /\ [][SessionNext]_vars

----------------------------------------------------------------------------
(* Threads of one process that call get_stopwords at the same time.  A     *)
(* call asks the library for the list of its language with                 *)
(* stopwords.words(language) and turns it into a set; the function keeps    *)
(* nothing between calls and takes no lock.  call, pc and result are per   *)
(* thread; ran lists the calls of stopwords.words begun so far, each with  *)
(* whether the corpus was installed when it began.  The process starts     *)
(* with the import of the module, which calls download_nltk_resources()    *)
(* before the class exists; the function can be called again later, by     *)
(* any thread.  tokens lists the calls of download_nltk_resources, each    *)
(* with the resource it is at.  What the library does inside a call is     *)
(* not part of the repository: a call of stopwords.words returns the list  *)
(* or raises, a call of nltk.download installs the resource, returns       *)
(* without it, or raises.                                                  *)

Threads == 1..MaxThreads

(* resources.get(language, resources['german']) *)
ResourcesFor(language) ==
    IF language = "english"
    THEN <<"punkt", "stopwords", "averaged_perceptron_tagger">>
    ELSE <<"punkt", "stopwords">>

(* the languages download_nltk_resources is called with: the two of the   *)
(* table and one that is not in it                                         *)
DownloadLanguages == NltkLanguages \cup {"xx"}

(* a call of download_nltk_resources(language) that is at the at-th        *)
(* resource of its list                                                    *)
DownloadCall(language, at, at_pc) == [language |-> language, at |-> at, pc |-> at_pc]

(* the loop of a call goes on to the next resource, or the call is over *)
NextResource(d) ==
    IF d.at < Len(ResourcesFor(d.language))
    THEN DownloadCall(d.language, d.at + 1, "download")
    ELSE DownloadCall(d.language, d.at + 1, "done")

(* the call at the end of the module's import has returned *)
Imported == tokens[1].pc = "done"

LoadInit ==
    /\ call \in [Threads -> {c \in StopwordCalls : c.language \in NltkLanguages}]
    /\ env \in {Env(n, TRUE, st, FleschRaises) : n \in BOOLEAN, st \in BOOLEAN}
    /\ pc = [t \in Threads |-> "call"]
    /\ ran = <<>>
    /\ tokens = <<DownloadCall("german", 1, "download")>>
    /\ log = <<>>
    /\ result = [t \in Threads |-> NoResult]

(* download_nltk_resources(language) is called again *)
DownloadNltkResources ==
    /\ Imported
    /\ Len(tokens) < 1 + MaxDownloads
    /\ \E language \in DownloadLanguages :
           tokens' = Append(tokens, DownloadCall(language, 1, "download"))
    /\ UNCHANGED <<call, env, pc, ran, log, result>>

(* it is called with a language that cannot be a key (a list):             *)
(* resources.get raises TypeError outside the inner try, and the outer     *)
(* except logs the error                                                   *)
DownloadUnexpected ==
    /\ Imported
    /\ Len(tokens) < 1 + MaxDownloads
    /\ tokens' = Append(tokens, DownloadCall("[]", 1, "done"))
    /\ log' = Append(log, LogRec("ERROR", "download"))
    /\ UNCHANGED <<call, env, pc, ran, result>>

(* nltk.download(resource, ...) returns: with the resource installed, or   *)
(* without it                                                              *)
DownloadResource(d) ==
    /\ tokens[d].pc = "download"
    /\ \E installed \in BOOLEAN :
           LET resource == ResourcesFor(tokens[d].language)[tokens[d].at]
           IN  env' = [env EXCEPT
                   !.nltk = @ \/ (installed /\ resource = "punkt"),
                   !.stop = @ \/ (installed /\ resource = "stopwords")]
    /\ tokens' = [tokens EXCEPT ![d] = NextResource(@)]
    /\ UNCHANGED <<call, pc, ran, log, result>>

(* nltk.download raises *)
DownloadRaises(d) ==
    /\ tokens[d].pc = "download"
    /\ tokens' = [tokens EXCEPT ![d].pc = "except"]
    /\ UNCHANGED <<call, env, pc, ran, log, result>>

(* except Exception: logger.warning, and on to the next resource *)
DownloadWarn(d) ==
    /\ tokens[d].pc = "except"
    /\ log' = Append(log, LogRec("WARNING", "download"))
    /\ tokens' = [tokens EXCEPT ![d] = NextResource(@)]
    /\ UNCHANGED <<call, env, pc, ran, result>>

(* thread t calls stopwords.words(language) *)
BeginLoad(t) ==
    /\ Imported
    /\ pc[t] = "call"
    /\ pc' = [pc EXCEPT ![t] = "loading"]
    /\ ran' = Append(ran, [thread |-> t, language |-> call[t].language,
                           found |-> env.stop])
    /\ UNCHANGED <<call, env, tokens, log, result>>

(* the call returns the list: return set(...) *)
FinishLoad(t) ==
    /\ pc[t] = "loading"
    /\ env.stop
    /\ result' = [result EXCEPT ![t] =
                     [kind |-> "stopwords",
                      words |-> GetStopwordsFor(call[t].language, env)]]
    /\ pc' = [pc EXCEPT ![t] = "done"]
    /\ UNCHANGED <<call, env, ran, tokens, log>>

(* the call finds no corpus and raises *)
LoadRaises(t) ==
    /\ pc[t] = "loading"
    /\ ~env.stop
    /\ pc' = [pc EXCEPT ![t] = "except"]
    /\ UNCHANGED <<call, env, ran, tokens, log, result>>

(* except Exception: the warning and the fallback set, whatever has been   *)
(* installed since                                                         *)
FinishLoadFallback(t) ==
    /\ pc[t] = "except"
    /\ result' = [result EXCEPT ![t] =
                     [kind |-> "stopwords", words |-> FallbackStopwords]]
    /\ log' = Append(log, LogRec("WARNING", "stopwords"))
    /\ pc' = [pc EXCEPT ![t] = "done"]
    /\ UNCHANGED <<call, env, ran, tokens>>

LoadNext ==
    \/ DownloadNltkResources
    \/ DownloadUnexpected
    \/ \E d \in 1..Len(tokens) :
           \/ DownloadResource(d)
           \/ DownloadRaises(d)
           \/ DownloadWarn(d)
    \/ \E t \in Threads :
           \/ BeginLoad(t)
           \/ FinishLoad(t)
           \/ LoadRaises(t)
           \/ FinishLoadFallback(t)

SpecLoad == LoadInit /\ [][LoadNext]_vars

----------------------------------------------------------------------------



(* analyze_document (ui/web.py): count_words, then the four scorers inside *)
(* one try block.  ran lists the steps taken; a scorer that raised is      *)
(* listed as "raise:<scorer>".                                             *)

Scorers == {"readability", "wdf_idf", "semantic", "keyword_density"}

(* full_text = "\n".join([paragraph.text for paragraph in doc.paragraphs]) *)
FullText(doc) == Join(doc.paras, <<"\n">>)

(* the Top 10 words of word_frequency, used as keywords *)
TopWords(stats) ==
    LET top == SliceTo(SortedDesc(stats.word_frequency), TopKeywordsN)
    IN  [i \in 1..Len(top) |-> top[i].k]

(* the readability entry the except branch writes *)
NotAvailable ==
    [flesch_reading_ease |-> 0,
     flesch_kincaid_grade |-> 0,
     complexity_level |-> "Nicht verfügbar"]

FacadeParaLists ==
    {<<>>}
        \cup {<<t>> : t \in TextsUpTo(MaxShort + 1) \cup {HelloText}}
        \cup {<<s, t>> : s \in TextsUpTo(MaxShort), t \in TextsUpTo(MaxShort)}

FacadeDocs ==
    {[ok |-> FALSE, paras |-> <<>>]}
        \cup {[ok |-> TRUE, paras |-> p] : p \in FacadeParaLists}

FacadeEnvs ==
    {Env(n, TRUE, st, f) : n \in BOOLEAN, st \in BOOLEAN, f \in FleschOutcomes}
        \cup {Env(FALSE, FALSE, TRUE, FleschRaises)}

FacadeInit ==
    /\ call \in {[op |-> "analyze_document", doc |-> d] : d \in FacadeDocs}
    /\ env \in Seeded(FacadeEnvs, {FullText(call.doc)})
    /\ pc = "start"
    /\ ran = <<>>
    /\ tokens = <<>>
    /\ log = <<>>
    /\ result = NoResult

(* result = WordCounter.count_words(file_path) *)
AnalyzeCountWords ==
    /\ pc = "start"
    /\ call.op = "analyze_document"
    /\ call.doc.ok
    /\ result' = CountWordsOf(call.doc)
    /\ ran' = Append(ran, "count_words")
    /\ pc' = "readability"
    /\ UNCHANGED <<call, env, tokens, log>>

(* count_words raises: the outer except reports it and returns None *)
AnalyzeCountWordsRaises ==
    /\ pc = "start"
    /\ call.op = "analyze_document"
    /\ ~call.doc.ok
    /\ result' = [kind |-> "None"]
    /\ ran' = Append(ran, "raise:count_words")
    /\ log' = Append(log, LogRec("ERROR", "analyze_document"))
    /\ pc' = "done"
    /\ UNCHANGED <<call, env, tokens>>

(* result['readability'] = SEOAnalyzer.readability_metrics(full_text) *)
AnalyzeReadability ==
    /\ pc = "readability"
    /\ result' = result @@ ("readability" :> ReadabilityMetrics(env))
    /\ log' = log \o ReadabilityLog(env)
    /\ ran' = Append(ran, "readability")
    /\ pc' = "wdf_idf"
    /\ UNCHANGED <<call, env, tokens>>

(* result['wdf_idf'] = SEOAnalyzer.calculate_wdf_idf([full_text]) *)
AnalyzeWdfIdf ==
    /\ pc = "wdf_idf"
    /\ result' = result @@ ("wdf_idf" :> CalculateWdfIdf(<<FullText(call.doc)>>, env))
    /\ log' = log \o SafeTokenize(FullText(call.doc), env).log
    /\ ran' = Append(ran, "wdf_idf")
    /\ pc' = "semantic"
    /\ UNCHANGED <<call, env, tokens>>

(* result['semantic'] = SEOAnalyzer.semantic_analysis(full_text) *)
AnalyzeSemantic ==
    /\ pc = "semantic"
    /\ result' = result @@ ("semantic" :> SemanticAnalysis(FullText(call.doc), env))
    /\ log' = log \o StopwordsLog(env) \o SafeTokenize(FullText(call.doc), env).log
    /\ ran' = Append(ran, "semantic")
    /\ pc' = "keyword_density"
    /\ UNCHANGED <<call, env, tokens>>

(* result['keyword_density'] = SEOAnalyzer.keyword_density(full_text, top_words) *)
AnalyzeKeywordDensity ==
    /\ pc = "keyword_density"
    /\ LET r == KeywordDensity(FullText(call.doc), TopWords(result), env)
       IN  /\ r.kind = "density"
           /\ result' = result @@ ("keyword_density" :> r.table)
    /\ tokens' = SafeTokenize(FullText(call.doc), env).tokens
    /\ log' = log \o SafeTokenize(FullText(call.doc), env).log
    /\ ran' = Append(ran, "keyword_density")
    /\ pc' = "return"
    /\ UNCHANGED <<call, env>>

(* keyword_density raises inside the try block *)
AnalyzeKeywordDensityRaises ==
    /\ pc = "keyword_density"
    /\ KeywordDensity(FullText(call.doc), TopWords(result), env).kind = "raised"
    /\ tokens' = SafeTokenize(FullText(call.doc), env).tokens
    /\ log' = log \o SafeTokenize(FullText(call.doc), env).log
    /\ ran' = Append(ran, "raise:keyword_density")
    /\ pc' = "except"
    /\ UNCHANGED <<call, env, result>>

(* except Exception as seo_error: st.warning, result['readability'] = ... *)
AnalyzeSeoExcept ==
    /\ pc = "except"
    /\ log' = Append(log, LogRec("WARNING", "analyze_document"))
    /\ result' = [result EXCEPT !.readability = NotAvailable]
    /\ pc' = "return"
    /\ UNCHANGED <<call, env, ran, tokens>>

(* return result *)
AnalyzeReturn ==
    /\ pc = "return"
    /\ pc' = "done"
    /\ UNCHANGED <<call, env, ran, tokens, log, result>>

FacadeNext ==
    \/ AnalyzeCountWords
    \/ AnalyzeCountWordsRaises
    \/ AnalyzeReadability
    \/ AnalyzeWdfIdf
    \/ AnalyzeSemantic
    \/ AnalyzeKeywordDensity
    \/ AnalyzeKeywordDensityRaises
    \/ AnalyzeSeoExcept
    \/ AnalyzeReturn

SpecFacade == FacadeInit /\ [][FacadeNext]_vars

----------------------------------------------------------------------------
(***************************************************************************)
(* Every way a readability result reaches a caller: readability_metrics    *)
(* called directly, and the readability field of analyze_document.         *)
(***************************************************************************)
LabelsInit == ReadabilityInit \/ FacadeInit

LabelsNext == ReadabilityNext \/ FacadeNext

SpecLabels == LabelsInit /\ [][LabelsNext]_vars

----------------------------------------------------------------------------
(***************************************************************************)
(* local_file_analysis: every uploaded file is written under temp/,        *)
(* analysed from there and removed again.  env.temp is the content of the  *)
(* directory temp/, one record per file name.                              *)
(***************************************************************************)

(* analyze_document as one call: None when count_words raises, else the    *)
(* statistics with the four scorer fields, readability replaced by the     *)
(* placeholder when a scorer raised                                        *)
AnalyzeDocument(doc, e) ==
    IF ~doc.ok THEN [kind |-> "None"]
    ELSE LET stats == CountWordsOf(doc)
             text == FullText(doc)
             kd == KeywordDensity(text, TopWords(stats), e)
             scored == stats @@ [readability |-> ReadabilityMetrics(e),
                                 wdf_idf |-> CalculateWdfIdf(<<text>>, e),
                                 semantic |-> SemanticAnalysis(text, e)]
         IN  IF kd.kind = "density"
             THEN scored @@ [keyword_density |-> kd.table]
             ELSE [scored EXCEPT !.readability = NotAvailable]

(* what analyze_document reports while it runs: the records of the         *)
(* scorers in the order they are called, then the warning of the except    *)
(* branch; for a file count_words cannot read, the error                   *)
AnalyzeDocumentLog(doc, e) ==
    IF ~doc.ok THEN <<LogRec("ERROR", "analyze_document")>>
    ELSE LET text == FullText(doc)
             kd == KeywordDensity(text, TopWords(CountWordsOf(doc)), e)
         IN  ReadabilityLog(e)
                 \o SafeTokenize(text, e).log
                 \o StopwordsLog(e) \o SafeTokenize(text, e).log
                 \o SafeTokenize(text, e).log
                 \o (IF kd.kind = "density" THEN <<>>
                     ELSE <<LogRec("WARNING", "analyze_document")>>)

(* open(temp_path, 'wb').write(...): a file of that name is replaced *)
WriteFile(disk, name, doc) ==
    {f \in disk : f.name # name} \cup {[name |-> name, doc |-> doc]}

(* if result: ... os.remove(temp_path) *)
RemoveAfterAnalysis(disk, name, r) ==
    IF r.kind # "None" THEN {f \in disk : f.name # name} ELSE disk

(* docx.Document(temp_path) *)
FileOn(disk, name) == (CHOOSE f \in disk : f.name = name).doc

UploadNames == {"a.docx", "b.docx"}

UploadDocs ==
    {[ok |-> FALSE, paras |-> <<>>],
     [ok |-> TRUE, paras |-> <<<<"a">>>>],
     [ok |-> TRUE, paras |-> <<<<"_">>>>]}

UploadedFiles == {[name |-> n, doc |-> d] : n \in UploadNames, d \in UploadDocs}

UploadCalls ==
    {[op |-> "local_file_analysis", uploaded_files |-> u] :
        u \in UNION {[1..n -> UploadedFiles] : n \in 1..MaxUploads}}

UploadEnvs ==
    {e @@ [temp |-> {}] :
        e \in Seeded({Env(TRUE, TRUE, TRUE, f) : f \in FleschOutcomes},
                     {FullText(d) : d \in UploadDocs})}

(* results = [] *)
UploadInit ==
    /\ call \in UploadCalls
    /\ env \in UploadEnvs
    /\ pc = "write"
    /\ ran = <<>>
    /\ tokens = <<>>
    /\ log = <<>>
    /\ result = [kind |-> "upload", results |-> <<>>]

(* the file the loop is at *)
UploadedFile == call.uploaded_files[Len(ran) + 1]

(* with open(temp_path, 'wb') as f: f.write(uploaded_file.getbuffer()) *)
UploadWriteTemp ==
    /\ pc = "write"
    /\ Len(ran) < Len(call.uploaded_files)
    /\ env' = [env EXCEPT !.temp = WriteFile(@, UploadedFile.name, UploadedFile.doc)]
    /\ pc' = "analyze"
    /\ UNCHANGED <<call, ran, tokens, log, result>>

(* result = analyze_document(temp_path); if result: append and remove *)
UploadAnalyzed ==
    /\ pc = "analyze"
    /\ LET r == AnalyzeDocument(FileOn(env.temp, UploadedFile.name), env)
       IN  /\ r.kind # "None"
           /\ result' = [result EXCEPT
                  !.results = Append(@, r @@ [file |-> UploadedFile.name])]
           /\ env' = [env EXCEPT
                  !.temp = RemoveAfterAnalysis(@, UploadedFile.name, r)]
    /\ log' = log \o AnalyzeDocumentLog(FileOn(env.temp, UploadedFile.name), env)
    /\ ran' = Append(ran, "analyze_document")
    /\ pc' = "write"
    /\ UNCHANGED <<call, tokens>>

(* analyze_document returned None: the body of 'if result' is skipped *)
UploadNotAnalyzed ==
    /\ pc = "analyze"
    /\ LET r == AnalyzeDocument(FileOn(env.temp, UploadedFile.name), env)
       IN  /\ r.kind = "None"
           /\ env' = [env EXCEPT
                  !.temp = RemoveAfterAnalysis(@, UploadedFile.name, r)]
    /\ ran' = Append(ran, "None")
    /\ log' = log \o AnalyzeDocumentLog(FileOn(env.temp, UploadedFile.name), env)
    /\ pc' = "write"
    /\ UNCHANGED <<call, tokens, result>>

(* display_results(results), or the warning that nothing was analysed *)
UploadDisplay ==
    /\ pc = "write"
    /\ Len(ran) = Len(call.uploaded_files)
    /\ log' = IF result.results = <<>>
              THEN Append(log, LogRec("WARNING", "local_file_analysis"))
              ELSE log
    /\ pc' = "done"
    /\ UNCHANGED <<call, env, ran, tokens, result>>

UploadNext ==
    \/ UploadWriteTemp
    \/ UploadAnalyzed
    \/ UploadNotAnalyzed
    \/ UploadDisplay

SpecUpload == UploadInit /\ [][UploadNext]_vars

----------------------------------------------------------------------------
(***************************************************************************)
(* fastapi_app.analyze_files: two requests served by one event loop.  A    *)
(* request runs without interruption except at 'await uploaded_file.      *)
(* read()', where the loop may run the other request.  env.temp is the     *)
(* directory temp/: one record per name with the number of the file        *)
(* (inode) behind the name and its bytes; an open handle keeps the number, *)
(* and a write through a handle whose file was removed reaches no name.    *)
(* The bytes of a file are the document last written (doc, size bytes      *)
(* long) and the tail bytes an earlier, longer write left behind it.       *)
(* Every document package that is written has the same length, so the     *)
(* bytes behind a written package are never those of a package.            *)
(***************************************************************************)
Requests == {"first", "second"}

(* a file just created or truncated by open(temp_path, 'wb') *)
EmptyFile == [ok |-> FALSE, paras |-> <<>>]

Upload(name, doc, size) == [filename |-> name, doc |-> doc, size |-> size]

(* packages of 800 bytes, 70000 bytes that are no package, and a file      *)
(* over the size limit                                                     *)
ServeUploads ==
    {Upload(n, [ok |-> TRUE, paras |-> <<<<w>>>>], 800) :
        n \in {"a.docx", "b.docx"}, w \in {"a", "b"}}
        \cup {Upload("a.docx", EmptyFile, 70000),
              Upload("a.docx", [ok |-> TRUE, paras |-> <<<<"a">>>>],
                     10 * 1024 * 1024 + 1)}

ServeCalls ==
    {[op |-> "analyze_files", files |-> u] :
        u \in UNION {[1..n -> ServeUploads] : n \in 1..MaxFiles}}

(* open(temp_path, 'wb'): the file of that name emptied, or a new file *)
OpenForWrite(disk, name, id) ==
    IF \E f \in disk : f.name = name
    THEN {IF f.name = name
          THEN [f EXCEPT !.doc = EmptyFile, !.size = 0, !.tail = 0]
          ELSE f : f \in disk}
    ELSE disk \cup {[name |-> name, id |-> id, doc |-> EmptyFile,
                     size |-> 0, tail |-> 0]}

(* the file an open of that name gives a handle to *)
HandleOf(disk, name, id) ==
    IF \E f \in disk : f.name = name
    THEN (CHOOSE f \in disk : f.name = name).id
    ELSE id

(* f.write(...) and the close at the end of the with block: the handle    *)
(* writes from offset 0 and leaves what the file holds beyond the new      *)
(* bytes                                                                   *)
WriteHandle(disk, id, doc, size) ==
    {IF f.id = id
     THEN [f EXCEPT !.doc = doc,
                    !.size = size,
                    !.tail = IF f.size + f.tail > size
                             THEN f.size + f.tail - size
                             ELSE 0]
     ELSE f : f \in disk}

(* the bytes at the name *)
ReadPath(disk, name) ==
    IF \E f \in disk : f.name = name
    THEN LET f == CHOOSE g \in disk : g.name = name
         IN  [found |-> TRUE, bytes |-> f.doc, tail |-> f.tail]
    ELSE [found |-> FALSE, bytes |-> EmptyFile, tail |-> 0]

(* what docx.Document(temp_path) makes of them: the package is found from  *)
(* the end of the file, through at most 64 KiB of bytes behind it          *)
DocumentAt(seen) ==
    IF seen.tail <= 64 * 1024 THEN seen.bytes ELSE EmptyFile

(* os.remove(temp_path) *)
RemovePath(disk, name) == {f \in disk : f.name # name}

ServeInit ==
    /\ call \in [Requests -> ServeCalls]
    /\ env = Env(TRUE, TRUE, TRUE, FleschRaises) @@ [temp |-> {}, next |-> 1]
    /\ pc = [r \in Requests |-> "next"]
    /\ ran = [r \in Requests |-> <<>>]
    /\ tokens = [r \in Requests |-> 0]
    /\ log = <<>>
    /\ result = [r \in Requests |-> [kind |-> "response", results |-> <<>>]]

(* the file the loop of request r is at *)
ServeFile(r) == call[r].files[Len(result[r].results) + 1]

ServeMore(r) ==
    /\ pc[r] = "next"
    /\ result[r].kind = "response"
    /\ Len(result[r].results) < Len(call[r].files)

(* if uploaded_file.size > 10 * 1024 * 1024: raise HTTPException(400) *)
ServeReject(r) ==
    /\ ServeMore(r)
    /\ ServeFile(r).size > 10 * 1024 * 1024
    /\ result' = [result EXCEPT ![r] = [kind |-> "http_error", status |-> 400]]
    /\ pc' = [pc EXCEPT ![r] = "done"]
    /\ UNCHANGED <<call, env, ran, tokens, log>>

(* open(temp_path, 'wb'), up to the await of uploaded_file.read() *)
ServeOpen(r) ==
    /\ ServeMore(r)
    /\ ServeFile(r).size <= 10 * 1024 * 1024
    /\ tokens' = [tokens EXCEPT ![r] = HandleOf(env.temp, ServeFile(r).filename, env.next)]
    /\ env' = [env EXCEPT !.temp = OpenForWrite(@, ServeFile(r).filename, env.next),
                          !.next = @ + 1]
    /\ pc' = [pc EXCEPT ![r] = "await"]
    /\ UNCHANGED <<call, ran, log, result>>

(* the write, count_words(temp_path), the append and os.remove(temp_path) *)
ServeAnalyze(r) ==
    /\ pc[r] = "await"
    /\ LET written == WriteHandle(env.temp, tokens[r], ServeFile(r).doc,
                                  ServeFile(r).size)
           seen == ReadPath(written, ServeFile(r).filename)
           stats == CountWordsOf(DocumentAt(seen))
       IN  /\ stats.kind = "stats"
           /\ ran' = [ran EXCEPT ![r] = Append(@, seen)]
           /\ result' = [result EXCEPT ![r].results =
                  Append(@, [k \in StatsKeys |-> stats[k]]
                                @@ [file |-> ServeFile(r).filename])]
           /\ env' = [env EXCEPT !.temp = RemovePath(written, ServeFile(r).filename)]
    /\ tokens' = [tokens EXCEPT ![r] = 0]
    /\ pc' = [pc EXCEPT ![r] = "next"]
    /\ UNCHANGED <<call, log>>

(* the write, then count_words(temp_path) raises: the request fails *)
ServeAnalyzeRaises(r) ==
    /\ pc[r] = "await"
    /\ LET written == WriteHandle(env.temp, tokens[r], ServeFile(r).doc,
                                  ServeFile(r).size)
           seen == ReadPath(written, ServeFile(r).filename)
           stats == CountWordsOf(DocumentAt(seen))
       IN  /\ stats.kind = "raised"
           /\ ran' = [ran EXCEPT ![r] = Append(@, seen)]
           /\ result' = [result EXCEPT ![r] = stats]
           /\ env' = [env EXCEPT !.temp = written]
    /\ tokens' = [tokens EXCEPT ![r] = 0]
    /\ pc' = [pc EXCEPT ![r] = "done"]
    /\ UNCHANGED <<call, log>>

(* return {"results": results} *)
ServeReturn(r) ==
    /\ pc[r] = "next"
    /\ result[r].kind = "response"
    /\ Len(result[r].results) = Len(call[r].files)
    /\ pc' = [pc EXCEPT ![r] = "done"]
    /\ UNCHANGED <<call, env, ran, tokens, log, result>>

ServeNext ==
    \E r \in Requests :
        \/ ServeReject(r)
        \/ ServeOpen(r)
        \/ ServeAnalyze(r)
        \/ ServeAnalyzeRaises(r)
        \/ ServeReturn(r)

SpecServe == ServeInit /\ [][ServeNext]_vars

----------------------------------------------------------------------------
(***************************************************************************)
(* The earlier web façade (web_20250328160703.py): analyze_document behind *)
(* cache_result.  A session is a sequence of runs of                       *)
(* local_file_analysis, each over the files uploaded to it; env.cache is   *)
(* st.session_state, one record per key, and the key of a call is its      *)
(* temp path, which the file name determines.                              *)
(***************************************************************************)
Str_Content == <<"c", "o", "n", "t", "e", "n", "t">>
Str_Marketing == <<"m", "a", "r", "k", "e", "t", "i", "n", "g">>

(* the undecorated analyze_document of that version: any exception in the  *)
(* body gives None                                                         *)
AnalyzeDocumentUncached(doc, e) ==
    IF ~doc.ok THEN [kind |-> "None"]
    ELSE LET stats == CountWordsOf(doc)
             text == FullText(doc)
             tf == CalculateTfIdf(<<text>>, e)
             kd == KeywordDensity(text, <<Str_Content, Str_Marketing, Str_Seo>>, e)
         IN  IF tf.kind = "raised" \/ kd.kind = "raised"
             THEN [kind |-> "None"]
             ELSE stats @@ [tf_idf |-> tf.table,
                            keyword_density |-> kd.table,
                            readability |-> ReadabilityMetrics(e),
                            semantic_analysis |-> SemanticAnalysis(text, e)]

(* st.session_state.get(key) *)
CacheGet(cache, key) ==
    IF \E c \in cache : c.key = key
    THEN (CHOOSE c \in cache : c.key = key).value
    ELSE [kind |-> "None"]

(* st.session_state[key] = result *)
CachePut(cache, key, value) ==
    {c \in cache : c.key # key} \cup {[key |-> key, value |-> value]}

(* what the body of analyze_document logs: the tokenizer of each scorer    *)
(* up to the one that raises, and st.error in the except branch            *)
AnalyzeDocumentUncachedLog(doc, e) ==
    IF ~doc.ok THEN <<LogRec("ERROR", "analyze_document")>>
    ELSE LET text == FullText(doc)
             tf == CalculateTfIdf(<<text>>, e)
             kd == KeywordDensity(text, <<Str_Content, Str_Marketing, Str_Seo>>, e)
         IN  PreprocessLog(<<text>>, e)
                 \o (IF tf.kind = "raised"
                     THEN <<LogRec("ERROR", "analyze_document")>>
                     ELSE SafeTokenize(text, e).log
                              \o (IF kd.kind = "raised"
                                  THEN <<LogRec("ERROR", "analyze_document")>>
                                  ELSE ReadabilityLog(e)
                                           \o SemanticLog(text, "german", e)))

CacheDocs == UploadDocs \cup {[ok |-> TRUE, paras |-> <<<<"b">>, <<"a">>>>]}

CacheUploads == {[name |-> n, doc |-> d] : n \in UploadNames, d \in CacheDocs}

(* what st.file_uploader returns in one run of the page *)
CacheRuns ==
    UNION {[1..n -> CacheUploads] : n \in 1..MaxUploads}

CacheInit ==
    /\ call = [op |-> "none"]
    /\ env \in {e @@ [temp |-> {}, cache |-> {}] :
                   e \in Seeded({Env(TRUE, TRUE, TRUE, f) : f \in FleschOutcomes},
                                {FullText(d) : d \in CacheDocs})}
    /\ pc = "idle"
    /\ ran = <<>>
    /\ tokens = 0
    /\ log = <<>>
    /\ result = NoResult

(* a run of local_file_analysis begins: uploaded_files is not empty,       *)
(* results = []; tokens counts the files the loop has passed               *)
CacheUpload ==
    /\ pc = "idle"
    /\ \E fs \in CacheRuns :
           /\ Len(ran) + Len(fs) <= MaxCalls
           /\ call' = [op |-> "local_file_analysis", uploaded_files |-> fs]
    /\ result' = [kind |-> "upload", results |-> <<>>]
    /\ tokens' = 0
    /\ pc' = "write"
    /\ UNCHANGED <<env, ran, log>>

(* the file the loop is at *)
CacheFile == call.uploaded_files[tokens + 1]

(* with open(temp_path, 'wb') as f: f.write(uploaded_file.getbuffer()) *)
CacheWriteTemp ==
    /\ pc = "write"
    /\ tokens < Len(call.uploaded_files)
    /\ env' = [env EXCEPT !.temp = WriteFile(@, CacheFile.name, CacheFile.doc)]
    /\ pc' = "analyze"
    /\ UNCHANGED <<call, ran, tokens, log, result>>

(* wrapper: cached_result is not None, return cached_result; the caller    *)
(* sets 'file' in it again, appends it and removes the temp file           *)
CacheHit ==
    /\ pc = "analyze"
    /\ LET cached == CacheGet(env.cache, CacheFile.name)
       IN  /\ cached.kind # "None"
           /\ result' = [result EXCEPT !.results = Append(@, cached)]
           /\ ran' = Append(ran, [file |-> CacheFile, out |-> cached, hit |-> TRUE])
           /\ env' = [env EXCEPT
                  !.temp = RemoveAfterAnalysis(@, CacheFile.name, cached)]
    /\ tokens' = tokens + 1
    /\ pc' = "write"
    /\ UNCHANGED <<call, log>>

(* wrapper: result = func(args), st.session_state[key] = result; the       *)
(* caller's result['file'] = uploaded_file.name writes into the dict that  *)
(* was stored                                                              *)
CacheMiss ==
    /\ pc = "analyze"
    /\ CacheGet(env.cache, CacheFile.name).kind = "None"
    /\ LET r == AnalyzeDocumentUncached(FileOn(env.temp, CacheFile.name), env)
           kept == IF r.kind = "None" THEN r ELSE r @@ [file |-> CacheFile.name]
       IN  /\ result' = IF r.kind = "None" THEN result
                        ELSE [result EXCEPT !.results = Append(@, kept)]
           /\ ran' = Append(ran, [file |-> CacheFile, out |-> r, hit |-> FALSE])
           /\ env' = [env EXCEPT
                  !.cache = CachePut(@, CacheFile.name, kept),
                  !.temp = RemoveAfterAnalysis(@, CacheFile.name, r)]
    /\ log' = log \o AnalyzeDocumentUncachedLog(FileOn(env.temp, CacheFile.name), env)
    /\ tokens' = tokens + 1
    /\ pc' = "write"
    /\ UNCHANGED call

(* after the loop: display_results(results), or the warning that nothing   *)
(* was analysed                                                            *)
CacheDisplay ==
    /\ pc = "write"
    /\ tokens = Len(call.uploaded_files)
    /\ log' = IF result.results = <<>>
              THEN Append(log, LogRec("WARNING", "local_file_analysis"))
              ELSE log
    /\ pc' = "idle"
    /\ UNCHANGED <<call, env, ran, tokens, result>>

CacheNext ==
    \/ CacheUpload
    \/ CacheWriteTemp
    \/ CacheHit
    \/ CacheMiss
    \/ CacheDisplay

SpecCache == CacheInit /\ [][CacheNext]_vars

----------------------------------------------------------------------------




(* Claims about safe_tokenize. *)

TierOrder == <<"nltk", "regex", "split">>

(* what tier k alone produces for the text *)
TierOutput(k, t) ==
    CASE k = "nltk" -> NltkTier(LowerText(t))
      [] k = "regex" -> RegexTier(LowerText(t))
      [] OTHER -> SplitTier(LowerText(t))

(* C4: the tiers of safe_tokenize run strictly in the order nltk, regex,   *)
(* split; the regex tier runs only after the NLTK tier raised and the      *)
(* split tier only after the regex tier raised; every tier that raised     *)
(* left a log record, the first of them a warning, and by the time a       *)
(* fallback tier runs a warning is in the log; the call returns tokens,    *)
(* never an exception, and the tokens are the whole output of the one tier *)
(* that ran last.                                                          *)
C4_TiersInOrderAllOrNothing ==
    /\ Len(ran) <= 3
    /\ \A i \in 1..Len(ran) : ran[i] = TierOrder[i]
    /\ Len(ran) >= 2 => ~env.nltk
    /\ Len(ran) >= 3 => ~env.regex
    /\ Len(log) = (IF pc = "done" THEN Len(ran) - 1 ELSE Len(ran))
    /\ Len(ran) >= 2 => log[1].level = "WARNING" /\ log[1].src = "nltk"
    /\ \A i \in 2..Len(ran) :
           \E j \in 1..(i - 1) : log[j].level = "WARNING"
    /\ pc = "done" =>
           /\ result.kind = "tokens"
           /\ result.tier = ran[Len(ran)]
           /\ tokens = TierOutput(ran[Len(ran)], call.text)

(* C4 witness: both fallbacks were taken and the split tier returned tokens *)
C4_Witness ==
    /\ pc = "done"
    /\ ran = TierOrder
    /\ Len(log) = 2
    /\ tokens # <<>>

(* the positions where a maximal run of word characters starts *)
RunStarts(t) ==
    {i \in 1..Len(t) : IsWordChar(t[i]) /\ (i = 1 \/ ~IsWordChar(t[i - 1]))}

(* the last position of the maximal run that starts at i *)
RunEnd(t, i) ==
    CHOOSE j \in i..Len(t) :
        /\ \A k \in i..j : IsWordChar(t[k])
        /\ j = Len(t) \/ ~IsWordChar(t[j + 1])

(* the maximal runs of word characters of t, in order of appearance *)
MaximalRuns(t) ==
    LET starts == RunStarts(t)
        nth(k) == CHOOSE i \in starts :
                      Cardinality({j \in starts : j < i}) = k - 1
    IN  [k \in 1..Cardinality(starts) |-> SubSeq(t, nth(k), RunEnd(t, nth(k)))]

(* C6: when the NLTK tier has failed and the regex tier returns, the       *)
(* tokens are exactly the maximal runs of word characters of the           *)
(* lower-cased text, in order of appearance; for "Hello, World! 123" they  *)
(* are hello, world, 123.                                                  *)
C6_RegexFallbackMaximalRuns ==
    (pc = "done" /\ call.op = "safe_tokenize" /\ result.tier = "regex") =>
        /\ tokens = MaximalRuns(LowerText(call.text))
        /\ call.text = HelloText => tokens = <<Str_Hello, Str_World, Str_123>>

(* C6 witness: the regex tier has tokenized "Hello, World! 123" *)
C6_Witness ==
    /\ pc = "done"
    /\ call.op = "safe_tokenize"
    /\ result.tier = "regex"
    /\ ~env.nltk
    /\ call.text = HelloText
    /\ tokens = <<Str_Hello, Str_World, Str_123>>

----------------------------------------------------------------------------
(* Claims about the word counter. *)

Range(f) == {f[i] : i \in 1..Len(f)}

Min(a, b) == IF a < b THEN a ELSE b

(* the tokens of a document, stated without the regex engine: the maximal  *)
(* runs of word characters of the lower-cased, blank-joined paragraphs     *)
DocTokens(doc) == MaximalRuns(LowerText(Join(doc.paras, <<" ">>)))

CountDone == pc = "done" /\ call.op = "count_words" /\ call.doc.ok

(* C7: the statistics of every document carry total_words, unique_words    *)
(* and word_frequency, with total_words >= unique_words >= 0, and a        *)
(* document with at least one word has total_words > 0 and                 *)
(* unique_words > 0.                                                       *)
C7_TotalAtLeastUnique ==
    CountDone =>
        /\ result.kind = "stats"
        /\ {"total_words", "unique_words", "word_frequency"} \subseteq DOMAIN result
        /\ result.total_words >= result.unique_words
        /\ result.unique_words >= 0
        /\ (\E p \in 1..Len(call.doc.paras) :
               \E i \in 1..Len(call.doc.paras[p]) : IsWordChar(call.doc.paras[p][i]))
               => result.total_words > 0 /\ result.unique_words > 0

(* C7 witness: a document with a repeated word has been counted *)
C7_Witness ==
    /\ CountDone
    /\ result.total_words > result.unique_words
    /\ result.unique_words > 0

(* C8: an empty document (no paragraphs, or only empty ones) gives         *)
(* total_words = 0, unique_words = 0 and an empty frequency table, and     *)
(* count_words does not raise.                                             *)
C8_EmptyDocumentZero ==
    (CountDone /\ \A p \in 1..Len(call.doc.paras) : call.doc.paras[p] = <<>>) =>
        /\ result.kind = "stats"
        /\ result.total_words = 0
        /\ result.unique_words = 0
        /\ result.word_frequency = <<>>

(* C8 witness: the document without paragraphs has been counted *)
C8_Witness ==
    /\ CountDone
    /\ call.doc.paras = <<>>
    /\ result.kind = "stats"
    /\ result.total_words = 0

(* occurrences of w in words, and the place of its first one *)
Occurrences(words, w) == Cardinality({i \in 1..Len(words) : words[i] = w})

FirstIndex(words, w) ==
    CHOOSE i \in 1..Len(words) :
        words[i] = w /\ \A j \in 1..(i - 1) : words[j] # w

(* C9: _get_word_frequency(words, top_n) returns min(top_n, distinct       *)
(* words) entries, each a word of the list with its exact number of        *)
(* occurrences; no omitted word occurs more often than a returned one;     *)
(* among words with equal counts those appearing first are kept, and are   *)
(* listed first.                                                           *)
C9_TopNExactCountsStableTies ==
    (pc = "done" /\ call.op = "get_word_frequency") =>
        LET words == call.words
            tbl == result.table
            distinct == Range(words)
        IN  /\ Len(tbl) = Min(call.top_n, Cardinality(distinct))
            /\ \A i \in 1..Len(tbl) :
                   /\ tbl[i].k \in distinct
                   /\ tbl[i].v = Occurrences(words, tbl[i].k)
            /\ \A i, j \in 1..Len(tbl) : i < j => tbl[i].k # tbl[j].k
            /\ \A w \in distinct \ Keys(tbl) : \A i \in 1..Len(tbl) :
                   /\ Occurrences(words, w) <= tbl[i].v
                   /\ Occurrences(words, w) = tbl[i].v
                          => FirstIndex(words, tbl[i].k) < FirstIndex(words, w)
            /\ \A i, j \in 1..Len(tbl) :
                   (i < j /\ tbl[i].v = tbl[j].v)
                       => FirstIndex(words, tbl[i].k) < FirstIndex(words, tbl[j].k)

(* C9 witness: a table cut by top_n, with a tie between a kept word and an *)
(* omitted one and a tie between two kept words                            *)
C9_Witness ==
    /\ pc = "done"
    /\ call.op = "get_word_frequency"
    /\ Len(result.table) = call.top_n
    /\ Len(result.table) >= 2
    /\ result.table[1].v = result.table[2].v
    /\ \E w \in Range(call.words) \ Keys(result.table) :
           Occurrences(call.words, w) = result.table[2].v

(* C10: unique_words is the number of distinct tokens of the whole         *)
(* document and total_words the number of its tokens, whatever the cut of  *)
(* the frequency table: with more than 10 distinct tokens unique_words     *)
(* exceeds the number of entries of word_frequency.                        *)
C10_UniqueIndependentOfTruncation ==
    CountDone =>
        LET toks == DocTokens(call.doc)
        IN  /\ result.total_words = Len(toks)
            /\ result.unique_words = Cardinality(Range(toks))
            /\ Cardinality(Range(toks)) > DefaultTopN
                   => result.unique_words > Len(result.word_frequency)

(* C10 witness: a document with more distinct tokens than the table holds *)
C10_Witness ==
    /\ CountDone
    /\ result.unique_words > DefaultTopN
    /\ Len(result.word_frequency) = DefaultTopN
    /\ result.total_words > result.unique_words

----------------------------------------------------------------------------
(* Claims about keyword_density and the facade. *)

(* C1: keyword_density on a text without tokens does not raise and maps    *)
(* every keyword to the density 0.                                         *)
C1_ZeroTokensZeroDensity ==
    (pc = "done" /\ call.op = "keyword_density" /\ tokens = <<>>) =>
        /\ result.kind = "density"
        /\ \A i \in 1..Len(call.keywords) :
               \E j \in 1..Len(result.table) :
                   /\ result.table[j].k = call.keywords[i]
                   /\ result.table[j].v.num = 0

RaiseTag(s) ==
    CASE s = "readability" -> "raise:readability"
      [] s = "wdf_idf" -> "raise:wdf_idf"
      [] s = "semantic" -> "raise:semantic"
      [] OTHER -> "raise:keyword_density"

RaisedScorers == {s \in Scorers : RaiseTag(s) \in Range(ran)}

(* what scorer s itself returns for the document being analysed *)
ScorerOutput(s) ==
    CASE s = "readability" -> ReadabilityMetrics(env)
      [] s = "wdf_idf" -> CalculateWdfIdf(<<FullText(call.doc)>>, env)
      [] s = "semantic" -> SemanticAnalysis(FullText(call.doc), env)
      [] OTHER -> KeywordDensity(FullText(call.doc), TopWords(result), env).table

(* C2: in analyze_document the scorers are isolated: whichever scorer      *)
(* raises, every other scorer has been run on the document and the         *)
(* returned analysis holds that scorer's result.                           *)
C2_ScorersIsolated ==
    (pc = "done" /\ call.op = "analyze_document" /\ result.kind = "stats") =>
        \A s \in Scorers \ RaisedScorers :
            /\ s \in Range(ran)
            /\ s \in DOMAIN result
            /\ result[s] = ScorerOutput(s)

(* the zero-valued entries that stand for a failed sub-metric *)
IsPlaceholder(s, v) ==
    CASE s = "readability" ->
             /\ v.flesch_reading_ease = 0
             /\ v.flesch_kincaid_grade = 0
             /\ v.complexity_level \in {"Unbekannt", "Nicht verfügbar"}
      [] s = "semantic" ->
             v.unique_meaningful_words = 0 /\ v.top_meaningful_words = <<>>
      [] OTHER -> v = <<>>

(* C3: a returned analysis never lacks a sub-metric field, and a           *)
(* sub-metric that failed leaves a result (not None) whose field for it    *)
(* holds a zero-valued placeholder.                                        *)
C3_FailedMetricHasPlaceholder ==
    (pc = "done" /\ call.op = "analyze_document") =>
        /\ result.kind = "stats" => Scorers \subseteq DOMAIN result
        /\ RaisedScorers # {} =>
               /\ result.kind = "stats"
               /\ \A s \in RaisedScorers :
                      s \in DOMAIN result /\ IsPlaceholder(s, result[s])

(* the keys of the tables a result carries *)
TableKeys(r) ==
    (IF "word_frequency" \in DOMAIN r THEN Keys(r.word_frequency) ELSE {})
        \cup (IF "wdf_idf" \in DOMAIN r THEN Keys(r.wdf_idf) ELSE {})
        \cup (IF "table" \in DOMAIN r THEN Keys(r.table) ELSE {})

(* C5: every key of a frequency table and of a score table is a non-empty  *)
(* token of alphanumeric characters only.                                  *)
C5_TableKeysAlphanumeric ==
    \A k \in TableKeys(result) : IsAlnum(k)

----------------------------------------------------------------------------
(* Claims about the corpus scorers. *)

(* the table an operation returned, <<>> if it returned none *)
ReturnedTable ==
    IF result.kind \in {"freq", "scores"} THEN result.table
    ELSE IF result.kind = "stats" THEN result.word_frequency
    ELSE <<>>

(* the corpus as calculate_tf_idf / calculate_wdf_idf process it *)
ProcessedDocs ==
    [i \in 1..Len(call.documents) |-> Preprocess(call.documents[i], env)]

ScoreDone == pc = "done" /\ call.op \in {"calculate_tf_idf", "calculate_wdf_idf"}

(* C11: every table returned by _get_word_frequency, calculate_tf_idf and *)
(* calculate_wdf_idf is in non-increasing order of value: for positions   *)
(* i < j, value[i] >= value[j].                                            *)
C11_TablesNonIncreasing ==
    pc = "done" =>
        \A i, j \in 1..Len(ReturnedTable) :
            i < j => ReturnedTable[i].v >= ReturnedTable[j].v

(* a score table of three terms whose order of insertion was not the      *)
(* order of their scores                                                   *)
C11_Witness ==
    /\ ScoreDone
    /\ call.op = "calculate_tf_idf"
    /\ result.kind = "scores"
    /\ Len(result.table) >= 3
    /\ result.table[1].v > result.table[Len(result.table)].v
    /\ result.table # TfIdfDocs(ProcessedDocs, 1, <<>>, env)

(* the terms of the corpus, the documents holding a term, and the score   *)
(* the code computes for a term from the i-th document                     *)
CorpusTerms == UNION {Range(ProcessedDocs[i]) : i \in 1..Len(ProcessedDocs)}

DocsWith(term) ==
    {i \in 1..Len(ProcessedDocs) : TermCount(ProcessedDocs[i], term) > 0}

Max(S) == CHOOSE x \in S : \A y \in S : y <= x

ScoreFrom(i, term) ==
    LET idf == Idf(Len(ProcessedDocs), DocumentFrequency(ProcessedDocs, term))
    IN  IF call.op = "calculate_tf_idf"
        THEN TfIdfScore(TermFrequency(ProcessedDocs[i], term), idf)
        ELSE Wdf(TermCount(ProcessedDocs[i], term)) * idf

(* C12: the merged table of calculate_tf_idf / calculate_wdf_idf holds    *)
(* exactly one score per term of the corpus, and the score of a term is   *)
(* the one computed from the last document, in input order, that contains *)
(* the term.                                                               *)
C12_OneScorePerTermLastDocumentWins ==
    ScoreDone =>
        /\ result.kind = "scores"
        /\ Keys(result.table) = CorpusTerms
        /\ Len(result.table) = Cardinality(CorpusTerms)
        /\ \A i \in 1..Len(result.table) :
               result.table[i].v =
                   ScoreFrom(Max(DocsWith(result.table[i].k)), result.table[i].k)

(* a term of two documents whose earlier document gave another score than *)
(* the one in the table                                                    *)
C12_Witness ==
    /\ ScoreDone
    /\ result.kind = "scores"
    /\ \E i \in 1..Len(result.table) :
           LET term == result.table[i].k
           IN  /\ Cardinality(DocsWith(term)) >= 2
               /\ \E d \in DocsWith(term) :
                      ScoreFrom(d, term) # result.table[i].v

(* the number of documents, and of documents holding a term *)
TotalDocs == Len(ProcessedDocs)

Df(term) == DocumentFrequency(ProcessedDocs, term)

ScoreOf(term) == result.table[Get(result.table, term)].v

(* C13, as stated: the idf ln(N / (df + 1)) is 0 only for a term that     *)
(* appears in every one of the N documents, and such a term gets score 0. *)
C13_IdfZeroOnlyInEveryDocument ==
    (ScoreDone /\ result.kind = "scores") =>
        \A term \in CorpusTerms :
            /\ Idf(TotalDocs, Df(term)) = 0 => Df(term) = TotalDocs
            /\ Df(term) = TotalDocs => ScoreOf(term) = 0

(* C13, amended: the idf ln(N / (df + 1)) is 0 exactly for a term that    *)
(* appears in N - 1 of the N documents, and such a term gets score 0; a   *)
(* term that appears in every document has a negative idf and a negative  *)
(* score.                                                                  *)
C13_IdfZeroExactlyInAllButOneDocument ==
    (ScoreDone /\ result.kind = "scores") =>
        \A term \in CorpusTerms :
            /\ Idf(TotalDocs, Df(term)) = 0 <=> Df(term) = TotalDocs - 1
            /\ Df(term) = TotalDocs - 1 => ScoreOf(term) = 0
            /\ Df(term) = TotalDocs =>
                   Idf(TotalDocs, Df(term)) < 0 /\ ScoreOf(term) < 0

(* a corpus of three documents with a term in two of them (score 0) and a *)
(* term in all three (score below 0)                                       *)
C13_Witness ==
    /\ ScoreDone
    /\ result.kind = "scores"
    /\ TotalDocs = 3
    /\ \E s, t \in CorpusTerms :
           /\ Df(s) = 2 /\ ScoreOf(s) = 0
           /\ Df(t) = 3 /\ ScoreOf(t) < 0

(* C14: in a corpus of N documents, a term that appears in every document *)
(* has the idf ln(N / (N + 1)), which is below 0, and its TF-IDF score is *)
(* tf * ln(N / (N + 1)), with the tf of the last document, hence below 0. *)
C14_TermInEveryDocumentScoresNegative ==
    (ScoreDone /\ call.op = "calculate_tf_idf" /\ result.kind = "scores") =>
        \A term \in CorpusTerms :
            Df(term) = TotalDocs =>
                LET last == ProcessedDocs[TotalDocs]
                    lnQuot == LnE4(TotalDocs) - LnE4(TotalDocs + 1)
                IN  /\ Idf(TotalDocs, Df(term)) = lnQuot
                    /\ lnQuot < 0
                    /\ ScoreOf(term) =
                           (TermCount(last, term) * lnQuot * 10000) \div Len(last)
                    /\ ScoreOf(term) < 0

(* three documents with a common term that the last one holds twice among *)
(* its three tokens: the score is 2/3 * ln(3/4)                            *)
C14_Witness ==
    /\ ScoreDone
    /\ call.op = "calculate_tf_idf"
    /\ result.kind = "scores"
    /\ TotalDocs = 3
    /\ \E term \in CorpusTerms :
           /\ Df(term) = 3
           /\ TermCount(ProcessedDocs[3], term) = 2
           /\ Len(ProcessedDocs[3]) = 3
           /\ ScoreOf(term) = (2 * (LnE4(3) - LnE4(4)) * 10000) \div 3

(* C15: for every corpus of N >= 1 documents, empty documents and        *)
(* documents without tokens included, calculate_tf_idf and                 *)
(* calculate_wdf_idf return without raising: no division by the length of *)
(* a document without tokens is performed, the argument N / (df + 1) of    *)
(* the logarithm is positive, and every score is a finite number.          *)
C15_ScorersTotalOnCorpora ==
    (ScoreDone /\ Len(call.documents) >= 1) =>
        /\ result.kind = "scores"
        /\ \A i \in 1..TotalDocs :
               \A j \in 1..Len(LoopTerms(ProcessedDocs, i, env)) :
                   LET term == LoopTerms(ProcessedDocs, i, env)[j]
                       arg == LogArg(TotalDocs, Df(term))
                   IN  /\ TermFrequency(ProcessedDocs[i], term).ok
                       /\ Len(ProcessedDocs[i]) > 0
                       /\ arg.num > 0 /\ arg.den > 0
        /\ \A i \in 1..Len(result.table) : result.table[i].v \in Int

(* a corpus with an empty document, a document whose only token is        *)
(* dropped, and a document that gives scores                               *)
C15_Witness ==
    /\ ScoreDone
    /\ call.op = "calculate_tf_idf"
    /\ result.kind = "scores"
    /\ \E i, j \in 1..TotalDocs :
           /\ call.documents[i] = <<>>
           /\ call.documents[j] # <<>> /\ ProcessedDocs[j] = <<>>
    /\ Len(result.table) >= 1

----------------------------------------------------------------------------
(* Claims about keyword_density on a text with tokens. *)

(* the number of occurrences of sub in t: the most occurrences that can   *)
(* be taken together without two of them sharing a character               *)
OccurrenceCount(t, sub) ==
    LET P == {i \in 1..Len(t) : OccursAt(t, sub, i)}
        Disjoint == {S \in SUBSET P :
                        \A i, j \in S : i < j => j - i >= Len(sub)}
    IN  Max({Cardinality(S) : S \in Disjoint})

(* C16: for a text with at least one token, keyword_density maps each     *)
(* keyword to 100 * (occurrences of the lower-cased keyword as a literal   *)
(* substring of the lower-cased text, inside longer words too) / (number   *)
(* of tokens); the value is never negative and not clamped to 100; for     *)
(* "seo seo content" and "seo" it is 200/3.                                *)
C16_DensityIsSubstringCountPerToken ==
    (pc = "done" /\ call.op = "keyword_density" /\ Len(tokens) >= 1) =>
        /\ result.kind = "density"
        /\ Keys(result.table) = Range(call.keywords)
        /\ Len(result.table) = Cardinality(Range(call.keywords))
        /\ \A i \in 1..Len(result.table) :
               LET kw == result.table[i].k
                   v == result.table[i].v
               IN  /\ v.den = Len(tokens)
                   /\ v.num = 100 * OccurrenceCount(LowerText(call.text),
                                                    LowerText(kw))
                   /\ v.num >= 0
                   /\ (call.text = SeoText /\ kw = Str_Seo) =>
                          v.num * 3 = 200 * v.den

(* a keyword counted twice inside the one token of the text: 200 percent *)
C16_Witness ==
    /\ pc = "done"
    /\ call.op = "keyword_density"
    /\ Len(tokens) = 1
    /\ result.kind = "density"
    /\ Len(result.table) = 1
    /\ result.table[1].k # tokens[1]
    /\ result.table[1].v.num = 200
    /\ result.table[1].v.num > 100 * result.table[1].v.den

----------------------------------------------------------------------------
(* Claims about the readability scorer. *)

(* the score classified and the label given, once an operation is done *)
Classified ==
    IF call.op = "get_complexity_level"
    THEN [score |-> call.score, label |-> result.level]
    ELSE [score |-> result.metrics.flesch_reading_ease,
          label |-> result.metrics.complexity_level]

(* the labels whose range of the classification table holds the score *)
LabelsFor(score) ==
    {l \in {"Sehr schwierig", "Schwierig", "Etwas schwierig", "Standard",
            "Leicht verständlich"} :
        CASE l = "Sehr schwierig" -> score < 30 * 1000
          [] l = "Schwierig" -> 30 * 1000 <= score /\ score < 50 * 1000
          [] l = "Etwas schwierig" -> 50 * 1000 <= score /\ score < 60 * 1000
          [] l = "Standard" -> 60 * 1000 <= score /\ score < 70 * 1000
          [] l = "Leicht verständlich" -> score >= 70 * 1000}

FormulaRaised ==
    \E i \in 1..Len(ran) :
        ran[i] \in {"raise:flesch_reading_ease", "raise:flesch_kincaid_grade"}

(* C17: _get_complexity_level puts every ease score in exactly one of     *)
(* five ranges: below 30 "Sehr schwierig" (very difficult), 30 to below   *)
(* 50 "Schwierig" (difficult), 50 to below 60 "Etwas schwierig" (somewhat  *)
(* difficult), 60 to below 70 "Standard", 70 and above "Leicht             *)
(* verständlich" (easy to understand); the boundary values fall in the    *)
(* upper range, and negative scores and scores above 100 are classified.   *)
C17_ComplexityLevelPartition ==
    (pc = "done" /\ result.kind \in {"level", "readability"} /\ ~FormulaRaised) =>
        /\ LabelsFor(Classified.score) = {Classified.label}
        /\ Classified.score = 30 * 1000 => Classified.label = "Schwierig"
        /\ Classified.score = 50 * 1000 => Classified.label = "Etwas schwierig"
        /\ Classified.score = 60 * 1000 => Classified.label = "Standard"
        /\ Classified.score = 70 * 1000 => Classified.label = "Leicht verständlich"
        /\ Classified.score = 30 * 1000 - 1 => Classified.label = "Sehr schwierig"
        /\ Classified.score < 0 => Classified.label = "Sehr schwierig"
        /\ Classified.score > 100 * 1000 => Classified.label = "Leicht verständlich"

(* the boundary score 30 classified as "Schwierig" *)
C17_Witness ==
    /\ pc = "done"
    /\ call.op = "get_complexity_level"
    /\ call.score = 30 * 1000
    /\ result.kind = "level"
    /\ result.level = "Schwierig"

(* C18: readability_metrics never propagates a failure of the formulas:   *)
(* when flesch_reading_ease or flesch_kincaid_grade raises it returns ease *)
(* score 0, grade level 0 and the label "Unbekannt" (unknown), which is    *)
(* not the label the score 0 is classified with.                           *)
C18_ReadabilityFailureGivesUnknown ==
    (pc = "done" /\ call.op = "readability_metrics") =>
        /\ result.kind = "readability"
        /\ FormulaRaised <=> ~(env.flesch.ok /\ env.flesch.grade_ok)
        /\ FormulaRaised =>
               /\ result.metrics.flesch_reading_ease = 0
               /\ result.metrics.flesch_kincaid_grade = 0
               /\ result.metrics.complexity_level = "Unbekannt"
               /\ result.metrics.complexity_level \notin LabelsFor(0)

(* the second formula raises after the first gave a score *)
C18_Witness ==
    /\ pc = "done"
    /\ call.op = "readability_metrics"
    /\ ran = <<"flesch_reading_ease", "raise:flesch_kincaid_grade">>
    /\ env.flesch.ease = 65 * 1000
    /\ result.kind = "readability"
    /\ result.metrics.complexity_level = "Unbekannt"

----------------------------------------------------------------------------
(* Claims about semantic_analysis. *)

SemanticDone == pc = "done" /\ call.op = "semantic_analysis"

(* the stopword set in force, and the positions of the tokens that stay:  *)
(* the alphanumeric tokens outside the stopword set                        *)
StopWords == GetStopwordsFor(call.language, env)

Kept == {i \in 1..Len(tokens) : IsAlnum(tokens[i]) /\ tokens[i] \notin StopWords}

KeptWords == {tokens[i] : i \in Kept}

KeptCount(w) == Cardinality({i \in Kept : tokens[i] = w})

KeptFirst(w) ==
    CHOOSE i \in Kept : tokens[i] = w /\ \A j \in Kept : tokens[j] = w => i <= j

Str_The == <<"t", "h", "e">>
Str_And == <<"a", "n", "d">>
Str_Cat == <<"c", "a", "t">>
Str_Dog == <<"d", "o", "g">>

(* C19: semantic_analysis removes every token of the stopword set, keeps  *)
(* the order of the remaining tokens, reports the number of distinct      *)
(* remaining tokens, and returns at most 10 (token, count) pairs, the     *)
(* most frequent ones, in descending count order with ties in order of    *)
(* first occurrence; with the stopwords "the" and "and" the text "the cat *)
(* and the dog and the cat" gives 2 and <<(cat, 2), (dog, 1)>>.            *)
C19_SemanticCountsRemainingTokens ==
    (SemanticDone /\ env.freq) =>
        LET top == result.top_meaningful_words
        IN  /\ Keys(top) \cap StopWords = {}
            /\ result.unique_meaningful_words = Cardinality(KeptWords)
            /\ Len(top) = Min(MostCommonN, Cardinality(KeptWords))
            /\ Len(top) <= 10
            /\ \A i \in 1..Len(top) :
                   top[i].k \in KeptWords /\ top[i].v = KeptCount(top[i].k)
            /\ \A i, j \in 1..Len(top) :
                   i < j =>
                       /\ top[i].k # top[j].k
                       /\ top[i].v >= top[j].v
                       /\ top[i].v = top[j].v
                              => KeptFirst(top[i].k) < KeptFirst(top[j].k)
            /\ \A w \in KeptWords \ Keys(top) : \A i \in 1..Len(top) :
                   /\ KeptCount(w) <= top[i].v
                   /\ KeptCount(w) = top[i].v => KeptFirst(top[i].k) < KeptFirst(w)
            /\ (call.text = CatDogText /\ StopWords \cap Range(tokens) = {Str_The, Str_And})
                   => /\ result.unique_meaningful_words = 2
                      /\ top = <<Entry(Str_Cat, 2), Entry(Str_Dog, 1)>>

(* the example of the claim: "the" and "and" removed, cat before dog *)
C19_Witness ==
    /\ SemanticDone
    /\ env.freq
    /\ call.text = CatDogText
    /\ StopWords \cap Range(tokens) = {Str_The, Str_And}
    /\ Len(tokens) = 8
    /\ result.unique_meaningful_words = 2
    /\ result.top_meaningful_words = <<Entry(Str_Cat, 2), Entry(Str_Dog, 1)>>

IsSemanticZero ==
    /\ result.kind = "semantic"
    /\ result.unique_meaningful_words = 0
    /\ result.top_meaningful_words = <<>>

Logged(src) == \E i \in 1..Len(log) : log[i].src = src

(* C20, as stated: semantic_analysis never raises, and when stopword      *)
(* loading, tokenization or counting fails inside it, it returns unique   *)
(* meaningful count 0 and an empty top list.                               *)
C20_AnyFailureGivesZero ==
    SemanticDone =>
        /\ result.kind = "semantic"
        /\ (Logged("stopwords") \/ Logged("nltk") \/ Logged("regex")
                \/ Logged("semantic")) => IsSemanticZero

(* C20, amended: semantic_analysis never raises; a failure of stopword    *)
(* loading or of a tokenizer tier is absorbed by the fallback stopword    *)
(* set or the next tier and the analysis is still returned; when counting *)
(* fails, so that an exception reaches its handler, it returns unique     *)
(* meaningful count 0 and an empty top list.                               *)
C20_NeverRaisesZeroWhenCaught ==
    SemanticDone =>
        /\ result.kind = "semantic"
        /\ Logged("semantic") <=> ~env.freq
        /\ Logged("semantic") => IsSemanticZero
        /\ ~Logged("semantic") =>
               /\ result.unique_meaningful_words = Cardinality(KeptWords)
               /\ Logged("stopwords") => StopWords = FallbackStopwords
               /\ Logged("nltk") =>
                      tokens = IF Logged("regex")
                               THEN SplitTier(LowerText(call.text))
                               ELSE RegexTier(LowerText(call.text))

(* counting fails on a text with a meaningful token, after the stopword   *)
(* list and the first tokenizer tier had failed too                        *)
C20_Witness ==
    /\ SemanticDone
    /\ Logged("stopwords") /\ Logged("nltk") /\ Logged("semantic")
    /\ Kept # {}
    /\ IsSemanticZero

----------------------------------------------------------------------------
(* Claims about get_stopwords. *)

(* C21: get_stopwords never fails for any language key: when the list of  *)
(* the language cannot be loaded (unknown language or missing resource)   *)
(* it logs a warning and returns the built-in, non-empty fallback set of  *)
(* German function words; otherwise it returns the loaded list as a set.  *)
C21_StopwordsFallbackNeverFails ==
    (pc = "done" /\ call.op = "get_stopwords") =>
        /\ result.kind = "stopwords"
        /\ IF "raise:stopwords.words" \in Range(ran)
           THEN /\ ~(env.stop /\ call.language \in {"german", "english"})
                /\ log = <<[level |-> "WARNING", src |-> "stopwords"]>>
                /\ result.words =
                       {<<"d", "e", "r">>, <<"d", "i", "e">>, <<"d", "a", "s">>,
                        <<"u", "n", "d">>, <<"o", "d", "e", "r">>, <<"i", "n">>,
                        <<"z", "u">>, <<"e", "i", "n">>, <<"e", "i", "n", "e">>}
                /\ result.words # {}
                /\ result.words \subseteq StopwordCorpus
           ELSE /\ env.stop /\ call.language \in {"german", "english"}
                /\ log = <<>>
                /\ result.words = IF call.language = "english"
                                  THEN EnglishStopwords
                                  ELSE StopwordCorpus

(* the list of a language without one is asked for while the corpus is    *)
(* installed: the German fallback set comes back                           *)
C21_Witness ==
    /\ pc = "done"
    /\ call.op = "get_stopwords"
    /\ call.language = "xx"
    /\ env.stop
    /\ Logged("stopwords")
    /\ result.kind = "stopwords"
    /\ <<"u", "n", "d">> \in result.words

----------------------------------------------------------------------------
(* Claims about a process that makes several scoring calls. *)

(* C22: every scorer is deterministic and history-independent: two calls  *)
(* with the same text (or corpus) and language return identical output,   *)
(* whatever other scoring calls the process made before or in between,     *)
(* and the output is that of the call made alone: nothing a call kept in   *)
(* its locals reaches a later call.                                        *)
C22_ScorersHistoryIndependent ==
    /\ \A i, j \in 1..Len(ran) :
           ran[i].call = ran[j].call => ran[i].out = ran[j].out
    /\ \A i \in 1..Len(ran) :
           ran[i].out = ScorerResult(ran[i].call, env)

(* the same corpus scored twice, with another corpus that shares a term    *)
(* scored in between, whose scores were still in the locals when the       *)
(* third call began                                                        *)
C22_Witness ==
    /\ pc = "idle"
    /\ Len(ran) = 3
    /\ ran[1].call = ran[3].call
    /\ ran[1].call.op = "calculate_tf_idf"
    /\ ran[2].call.op = "calculate_tf_idf"
    /\ ran[2].call.documents # ran[1].call.documents
    /\ \E i \in 1..Len(ran[2].out.table) :
           /\ \E j \in 1..Len(ran[1].out.table) :
                  ran[1].out.table[j].k = ran[2].out.table[i].k
           /\ \E j \in 1..Len(ran[1].out.table) :
                  ran[1].out.table[j].k \notin
                      {ran[2].out.table[k].k : k \in 1..Len(ran[2].out.table)}
    /\ ran[2].out # ran[1].out
    /\ ran[1].out = ran[3].out

----------------------------------------------------------------------------
(* Claims about concurrent first use of a language resource. *)

(* the calls of stopwords.words(l) the program has made so far *)
LoadsOf(l) == Cardinality({i \in 1..Len(ran) : ran[i].language = l})

(* the threads that are inside stopwords.words(l) *)
Loading(l) == {t \in Threads : pc[t] = "loading" /\ call[t].language = l}

(* C23: when several threads make the first use of the stopword list of a *)
(* language at the same time, the first use is synchronised: one thread   *)
(* at a time is inside the call that loads the list of a language, the     *)
(* program asks for the list of a language once, and a caller whose call   *)
(* found the corpus installed gets the whole list.                         *)
C23_ResourceLoadedOncePerLanguage ==
    /\ \A l \in NltkLanguages :
           /\ Cardinality(Loading(l)) <= 1
           /\ LoadsOf(l) <= 1
    /\ \A i \in 1..Len(ran) :
           (ran[i].found /\ pc[ran[i].thread] = "done") =>
               result[ran[i].thread].words =
                   IF ran[i].language = "english"
                   THEN EnglishStopwords
                   ELSE StopwordCorpus

----------------------------------------------------------------------------
(* the labels _get_complexity_level classifies an ease score into *)
ClassifiedLabels ==
    {"Sehr schwierig", "Schwierig", "Etwas schwierig", "Standard",
     "Leicht verständlich"}

(* the readability results handed to a caller in this state *)
ReturnedReadability ==
    IF pc # "done" THEN {}
    ELSE IF result.kind = "readability" THEN {result.metrics}
    ELSE IF result.kind = "stats" /\ "readability" \in DOMAIN result
         THEN {result.readability}
    ELSE {}

(* C24 as stated: the complexity label of every readability result that    *)
(* reaches a caller is one of five categories.                             *)
C24_LabelOneOfFive ==
    \A r \in ReturnedReadability : r.complexity_level \in ClassifiedLabels

(* C24 amended: the complexity label of every readability result that      *)
(* reaches a caller is one of seven strings, the five categories of the    *)
(* classification, 'Unbekannt' of a failed readability_metrics and         *)
(* 'Nicht verfügbar' of the façade's placeholder; the two extra labels     *)
(* come only with zero scores.                                             *)
C24_LabelOneOfSeven ==
    \A r \in ReturnedReadability :
        /\ r.complexity_level
               \in ClassifiedLabels \cup {"Unbekannt", "Nicht verfügbar"}
        /\ r.complexity_level \notin ClassifiedLabels =>
               r.flesch_reading_ease = 0 /\ r.flesch_kincaid_grade = 0

C24_Witness ==
    /\ pc = "done"
    /\ call.op = "analyze_document"
    /\ \E r \in ReturnedReadability : r.complexity_level = "Nicht verfügbar"
    /\ "readability" \in Range(ran)

----------------------------------------------------------------------------
(* C25: the number keyword_density divides by is the token count of the    *)
(* regular-expression tokenizer: it equals the total_words that            *)
(* count_words reports for the same text (here with word_tokenize          *)
(* installed and working).                                                 *)
C25_DensityDenominatorIsTotalWords ==
    (pc = "done" /\ call.op = "analyze_document" /\ env.nltk
                 /\ "keyword_density" \in Range(ran)) =>
        /\ Len(tokens) = Len(RegexTier(LowerText(FullText(call.doc))))
        /\ Len(tokens) = result.total_words

----------------------------------------------------------------------------
(* ln(1/2), in ten-thousandths *)
LnHalf == LnE4(1) - LnE4(2)

(* the score a term with the given count gets in a single document when    *)
(* its idf is ln(1/2)                                                      *)
SingleDocumentScore(count, len) ==
    IF call.op = "calculate_tf_idf"
    THEN (count * LnHalf * 10000) \div len
    ELSE LnE4(1 + count) * LnHalf

SingleDocumentDone ==
    ScoreDone /\ Len(call.documents) = 1 /\ result.kind = "scores"

(* C26: for a corpus of one document every term of the document is scored  *)
(* with idf = ln(1/2), so every score of the table is strictly negative,   *)
(* and a term with a strictly higher count in the document comes after     *)
(* every term with a lower count.                                          *)
C26_SingleDocumentNegativeLeastFrequentFirst ==
    SingleDocumentDone =>
        LET doc == ProcessedDocs[1]
            t == result.table
        IN  /\ Keys(t) = Range(doc)
            /\ \A i \in 1..Len(t) :
                   /\ t[i].v = SingleDocumentScore(TermCount(doc, t[i].k), Len(doc))
                   /\ t[i].v < 0
            /\ \A i, j \in 1..Len(t) :
                   TermCount(doc, t[i].k) < TermCount(doc, t[j].k) => i < j

(* a term that occurs twice, listed after a term that occurs once *)
C26_Witness ==
    /\ SingleDocumentDone
    /\ Len(result.table) = 2
    /\ TermCount(ProcessedDocs[1], result.table[1].k) = 1
    /\ TermCount(ProcessedDocs[1], result.table[2].k) = 2
    /\ result.table[2].v < result.table[1].v

----------------------------------------------------------------------------
(* C27: analyze_multiple_documents returns one entry per input path, in    *)
(* input order; a path whose count_words fails gives an entry with the     *)
(* file name and an 'error' text and no statistics, a path that succeeds   *)
(* gives the file name with its statistics and no 'error'; a failure on    *)
(* one path neither stops nor alters the other paths; every failure of     *)
(* count_words is a ValueError.                                            *)
C27_BatchOneEntryPerPath ==
    (pc = "done" /\ call.op = "analyze_multiple_documents") =>
        LET paths == call.document_paths
            rs == result.results
        IN  /\ Len(rs) = Len(paths)
            /\ \A i \in 1..Len(paths) :
                   LET doc == FileAt(paths[i])
                   IN  /\ rs[i].file = paths[i].name
                       /\ doc.ok =>
                              /\ DOMAIN rs[i] = {"file"} \cup StatsKeys
                              /\ \A k \in StatsKeys : rs[i][k] = WordStats(doc.paras)[k]
                              /\ ran[i] = "count_words"
                       /\ ~doc.ok =>
                              /\ DOMAIN rs[i] = {"file", "error"}
                              /\ rs[i].error = CountWordsError
                              /\ ran[i] = "ValueError"

(* a failing path between two paths that succeed *)
C27_Witness ==
    /\ pc = "done"
    /\ call.op = "analyze_multiple_documents"
    /\ Len(result.results) = 3
    /\ "error" \in DOMAIN result.results[2]
    /\ "total_words" \in DOMAIN result.results[1]
    /\ "total_words" \in DOMAIN result.results[3]
    /\ result.results[3].total_words = 3

----------------------------------------------------------------------------
(* C28: after local_file_analysis has processed a batch of uploaded files  *)
(* no temporary file it wrote under temp/ remains, whether the analysis of *)
(* a file succeeded or returned None.                                      *)
C28_NoTempFileRemains ==
    (pc = "done" /\ call.op = "local_file_analysis") => env.temp = {}

----------------------------------------------------------------------------
(* C29: concurrent POST /analyze/ requests are isolated: however two       *)
(* requests interleave at the await of the upload read, also when both     *)
(* upload the same filename, each request runs count_words on a temp file  *)
(* that exists and holds the bytes that request uploaded.                  *)
C29_RequestsIsolated ==
    \A r \in Requests :
        call[r].op = "analyze_files" =>
            \A i \in 1..Len(ran[r]) :
                /\ ran[r][i].found
                /\ ran[r][i].bytes = call[r].files[i].doc
                /\ ran[r][i].tail = 0

----------------------------------------------------------------------------
(* a result without the 'file' entry the upload loop adds to it *)
WithoutFile(r) == [k \in DOMAIN r \ {"file"} |-> r[k]]

(* C30: with the session cache around analyze_document the result          *)
(* returned for an uploaded file is the analysis of the content stored at  *)
(* its path at that moment, also when another file was analysed under the  *)
(* same name before, and a failed analysis (None) is never served from the *)
(* cache.                                                                  *)
C30_CachedResultIsCurrentAnalysis ==
    \A i \in 1..Len(ran) :
        /\ WithoutFile(ran[i].out) = AnalyzeDocumentUncached(ran[i].file.doc, env)
        /\ ran[i].hit => ran[i].out.kind # "None"

=============================================================================
